---- MODULE Spec2Model ----
(***************************************************************************)
(* Search-orchestration engine of the web research agent: the four         *)
(* traversal strategies (Human, Sequential, Parallel, ParallelTree) and    *)
(* the primitives they drive (metasearch, extraction pass, sufficiency     *)
(* check, fan-out, aggregation pass).  One behaviour is one call of a      *)
(* strategy.  Every action is the code between two suspension points       *)
(* (.await) of the strategy's async function; the answers of the external  *)
(* collaborators (metasearch, page fetch, LLM) are nondeterministic.       *)
(*                                                                         *)
(* Three specifications share the variables:                               *)
(*   Spec           one call of a traversal strategy;                      *)
(*   ComposerSpec   one request: agent_search, the query-strategy composer *)
(*                  over the sub-searches, then the result formatter;      *)
(*   PrimitiveSpec  one call of one primitive: metasearch client, page     *)
(*                  fetcher, LLM gateway, scrape formatter, JSON           *)
(*                  extractor, webpage cleaner, query text of the          *)
(*                  Sequential strategy's metasearch call.                 *)
(* The variables of the parts a specification does not run stay idle.      *)
(***************************************************************************)
EXTENDS Integers, Sequences, FiniteSets, TLC

(***************************************************************************)
(* Bounds                                                                  *)
(***************************************************************************)
MaxResults == 3
MaxLevels == 2
MaxTreeSize == 2

(***************************************************************************)
(* Values                                                                  *)
(***************************************************************************)
WEB_SEARCH_USE_SAME_WEB_SEARCH_FINDINGS_DOCUMENT == "USE_SAME_WEB_SEARCH_FINDINGS_DOCUMENT"

\* A text is a sequence of chunks; the sentinel is one chunk.
Completions ==
    { <<"A">>, <<"B">>,
      <<WEB_SEARCH_USE_SAME_WEB_SEARCH_FINDINGS_DOCUMENT>>,
      <<"A", WEB_SEARCH_USE_SAME_WEB_SEARCH_FINDINGS_DOCUMENT>> }

\* str::contains
Contains(text, chunk) == \E i \in DOMAIN text : text[i] = chunk

AgentSearchStrategy == {"Human", "Sequential", "Parallel", "ParallelTree"}

\* The i-th (0-based) result of the metasearch.
SearchResult(i) == [url |-> i]

\* The result list of a metasearch that returned n results.
SearchResults(n) == [i \in 1..n |-> SearchResult(i - 1)]

\* Rust slice indexing and Vec::remove are 0-based.
InBounds(vec, idx) == idx >= 0 /\ idx < Len(vec)
At(vec, idx) == vec[idx + 1]
\* As Remove, but the element stays in the list.
Remove_Keep(vec, idx) == vec
Remove(vec, idx) == SubSeq(vec, 1, idx) \o SubSeq(vec, idx + 2, Len(vec))

\* usize values an LLM may answer with: every valid index and one past them.
Indices == 0..MaxResults

Ok(value) == [kind |-> "Ok", value |-> value]
Err(error) == [kind |-> "Err", error |-> error]

VARIABLES
    strategy,            \* the traversal strategy of this call
    pc,                  \* the suspension point the strategy is at
    search_results,      \* the raw results of the metasearch
    analysis,            \* the AnalysisDocument owned by Sequential / Human
    unvisited_results,   \* Human: the local list of unvisited results
    result,              \* Sequential / Human: the result being visited (<<>> = none)
    outcome,             \* what the strategy returned
    calls,               \* number of calls issued to each component
    extracted,           \* log of the extraction passes issued: result and baseline
    failed,              \* the component failures that happened, in order
    completion,          \* Sequential / Human: the last analyze-result completion
    sufficient_at,       \* number of extractions when the check said sufficient (-1 = never)
    dependency_tree,     \* ParallelTree: the levels the LLM answered
    level,               \* ParallelTree: number of levels already processed
    current_analysis,    \* ParallelTree: the findings so far
    visited_results,     \* ParallelTree: the results visited so far
    tasks,               \* fan-out: the spawned extraction tasks, in spawn order
    finish_order,        \* fan-out: the task positions in the order the tasks completed
    extraction_results,  \* fan-out: the list handed to the aggregation pass
    level_results,       \* ParallelTree: the results selected by the current level
    selected,            \* ParallelTree: the indices search_results was indexed with
    aggregated,          \* ParallelTree: the outputs of the aggregation passes, in order
    query_strategy,      \* composer: the query strategy of this agent_search call
    synthesized_queries, \* composer: the queries the synthesizer answered
    composer_pc,         \* composer: the suspension point agent_search is at
    sub_searches,        \* composer: the spawned sub-searches, in spawn order
    sub_finish_order,    \* composer: the sub-search positions in completion order
    cur_result,          \* composer: Sequential's Option<AgentSearchResult>
    sub_outputs,         \* composer: the Ok results of the sub-searches run in sequence
    agent_search_result, \* composer: what agent_search returned
    request_input,       \* request: the SearchInput fields agent_search hands on
    sub_inputs,          \* composer: the inputs the sub-searches were started with
    result_format,       \* request: the ResultFormat asked for
    custom_format_description, \* request: Option<&str> (<<>> = None)
    request_pc,          \* request: the suspension point the request is at
    request_log,         \* request: the calls issued and sub-search returns, in order
    format_request,      \* request: the prompt of the formatter's LLM call (<<>> = none)
    format_completion,   \* request: the answer of the formatter's LLM call (<<>> = none)
    final_result,        \* request: what the request returned
    op,                  \* primitive: the primitive this call is of
    argument,            \* primitive: the argument of the call
    primitive_pc,        \* primitive: the suspension point the primitive is at
    attempts,            \* primitive: the `attempts` counter of a retry loop
    sends,               \* primitive: the requests issued, per collaborator
    sleeps,              \* primitive: the 1-second sleeps taken
    pages,               \* primitive: metasearch page requests, in page order
    page_finish_order,   \* primitive: the page positions in completion order
    response,            \* primitive: the HTTP response being read (<<>> = none)
    returned             \* primitive: what the primitive returned

seqVars == <<analysis, result, completion, sufficient_at>>
humanVars == <<unvisited_results>>
treeVars == <<dependency_tree, level, level_results, current_analysis, visited_results,
             selected, aggregated>>
fanVars == <<tasks, finish_order, extraction_results>>

requestVars == <<request_input, sub_inputs, result_format, custom_format_description,
                request_pc, request_log, format_request, format_completion,
                final_result>>
composerVars == <<query_strategy, synthesized_queries, composer_pc, sub_searches,
                 sub_finish_order, cur_result, sub_outputs, agent_search_result,
                 requestVars>>
primitiveVars == <<op, argument, primitive_pc, attempts, sends, sleeps, pages,
                  page_finish_order, response, returned>>

strategyVars == <<strategy, pc, search_results, analysis, unvisited_results, result,
                  outcome, calls, extracted, failed, completion, sufficient_at,
                  dependency_tree,
                  level, current_analysis, visited_results, tasks, finish_order,
                  extraction_results, level_results, selected, aggregated>>

vars == <<strategyVars, composerVars, primitiveVars>>

Running == [kind |-> "Running"]

\* No agent_search call is in progress.
ComposerIdle ==
    /\ query_strategy = "Verbatim"
    /\ synthesized_queries = <<>>
    /\ composer_pc = "idle"
    /\ sub_searches = <<>>
    /\ sub_finish_order = <<>>
    /\ cur_result = <<>>
    /\ sub_outputs = <<>>
    /\ agent_search_result = Running
    /\ request_input = [current_search_result |-> <<>>, search_strategy |-> <<>>,
                        max_results_to_visit |-> <<>>]
    /\ sub_inputs = <<>>
    /\ result_format = "Answer"
    /\ custom_format_description = <<>>
    /\ request_pc = "idle"
    /\ request_log = <<>>
    /\ format_request = <<>>
    /\ format_completion = <<>>
    /\ final_result = Running

NoSends == [fetch |-> 0, llm |-> 0, searx |-> 0]

\* No primitive is being called on its own.
PrimitiveIdle ==
    /\ op = "none"
    /\ argument = <<>>
    /\ primitive_pc = "idle"
    /\ attempts = 0
    /\ sends = NoSends
    /\ sleeps = 0
    /\ pages = <<>>
    /\ page_finish_order = <<>>
    /\ response = <<>>
    /\ returned = Running

NoCalls ==
    [search |-> 0, select |-> 0, extract |-> 0, sufficient |-> 0,
     tree |-> 0, aggregate |-> 0]

Call(component) == [calls EXCEPT ![component] = @ + 1]

Init ==
    /\ strategy \in AgentSearchStrategy
    /\ pc = "search"
    /\ search_results = <<>>
    /\ analysis = [content |-> <<>>]
    /\ unvisited_results = <<>>
    /\ result = <<>>
    /\ outcome = [kind |-> "Running"]
    /\ calls = [NoCalls EXCEPT !.search = 1]
    /\ extracted = <<>>
    /\ failed = <<>>
    /\ completion = <<>>
    /\ sufficient_at = -1
    /\ dependency_tree = <<>>
    /\ level = 0
    /\ current_analysis = <<>>
    /\ visited_results = <<>>
    /\ tasks = <<>>
    /\ finish_order = <<>>
    /\ extraction_results = <<>>
    /\ level_results = <<>>
    /\ selected = {}
    /\ aggregated = <<>>
    /\ ComposerIdle
    /\ PrimitiveIdle

\* `return Err(error)` after the component `step` failed; an error is the path
\* of its enum variants, outermost first.
ReturnErr(step, error) ==
    /\ pc' = "done"
    /\ outcome' = Err(error)
    /\ failed' = Append(failed, [step |-> step, error |-> error])

\* `Ok(...)` at the end of a strategy.
ReturnOk(doc) ==
    /\ pc' = "done"
    /\ outcome' = Ok(doc)
    /\ failed' = failed

\* A thread panic: the call is aborted without a return value.
Panic ==
    /\ pc' = "done"
    /\ outcome' = [kind |-> "Panic"]
    /\ failed' = failed

(***************************************************************************)
(* Extraction pass                                                         *)
(***************************************************************************)
\* What the page fetch and the analyze-result LLM call can answer.
ExtractionAnswers ==
    { Err("WebpageParseError"), Err("LLMError") } \cup { Ok(c) : c \in Completions }

\* As below, but the completion must be the sentinel and nothing else.
visit_and_extract_relevant_info_Exact(baseline, answer) ==
    IF answer.kind = "Err" THEN answer
    ELSE IF answer.value = <<WEB_SEARCH_USE_SAME_WEB_SEARCH_FINDINGS_DOCUMENT>>
         THEN Ok(baseline)
         ELSE Ok(answer.value)

\* As below, but the completion is appended to the findings it was given.
visit_and_extract_relevant_info_Append(baseline, answer) ==
    IF answer.kind = "Err" THEN answer
    ELSE IF Contains(answer.value, WEB_SEARCH_USE_SAME_WEB_SEARCH_FINDINGS_DOCUMENT)
         THEN Ok(baseline)
         ELSE Ok(baseline \o answer.value)

\* visit_and_extract_relevant_info: the new findings, or the error.
visit_and_extract_relevant_info(baseline, answer) ==
    IF answer.kind = "Err" THEN answer
    ELSE IF Contains(answer.value, WEB_SEARCH_USE_SAME_WEB_SEARCH_FINDINGS_DOCUMENT)
         THEN Ok(baseline)
         ELSE Ok(answer.value)

\* As below, but the sentinel yields a decision that neither keeps the current
\* findings nor carries new ones.
visit_and_analyze_result_NoDecision(baseline, answer) ==
    IF answer.kind = "Err" THEN answer
    ELSE IF Contains(answer.value, WEB_SEARCH_USE_SAME_WEB_SEARCH_FINDINGS_DOCUMENT)
         THEN Ok([keep_current |-> FALSE, new_analysis |-> <<>>])
         ELSE Ok([keep_current |-> FALSE, new_analysis |-> <<answer.value>>])

\* Human's visit_and_analyze_result: an LLMDecision, or the error.
visit_and_analyze_result(baseline, answer) ==
    IF answer.kind = "Err" THEN answer
    ELSE IF Contains(answer.value, WEB_SEARCH_USE_SAME_WEB_SEARCH_FINDINGS_DOCUMENT)
         THEN Ok([keep_current |-> TRUE, new_analysis |-> <<>>])
         ELSE Ok([keep_current |-> FALSE, new_analysis |-> <<answer.value>>])

\* What the sufficiency LLM call can answer, after parse_json_response.
SufficiencyAnswers ==
    { Err("LLMError"), Err("ParseError"), Ok(TRUE), Ok(FALSE) }

\* What the select-next-result LLM call can answer, after parse_json_response.
SelectAnswers ==
    { Err("LLMError"), Err("ParseError") } \cup { Ok(i) : i \in Indices }

\* What the metasearch can answer: an error, or up to MaxResults results.
SearchAnswers ==
    { Err("SearchError") } \cup { Ok(SearchResults(n)) : n \in 0..MaxResults }

(***************************************************************************)
(* Sequential strategy                                                     *)
(***************************************************************************)
\* The head of the while loop with the document `doc`: leave the loop and
\* return, or remove index 0 and issue its extraction pass.
\* The position the loop body removes: `unvisited_results.remove(0)`.
SequentialNext_Last(unvisited) == Len(unvisited) - 1

SequentialNext(unvisited) == 0

\* `if decision.sufficient { break; }`
SequentialBreak_Never(sufficient) == FALSE

SequentialBreak(sufficient) == sufficient

SequentialLoop(doc) ==
    IF doc.unvisited_results = <<>>
    THEN /\ ReturnOk(doc)
         /\ analysis' = doc
         /\ UNCHANGED <<result, extracted, calls>>
    ELSE LET next == SequentialNext(doc.unvisited_results) IN
         /\ result' = <<At(doc.unvisited_results, next)>>
         /\ analysis' = [doc EXCEPT !.unvisited_results = Remove(@, next)]
         /\ extracted' = Append(extracted,
                [result |-> At(doc.unvisited_results, next), baseline |-> doc.content])
         /\ calls' = Call("extract")
         /\ pc' = "seq_extract"
         /\ UNCHANGED <<outcome, failed>>

SequentialSearchReturn ==
    /\ UNCHANGED <<composerVars, primitiveVars>>
    /\ strategy = "Sequential" /\ pc = "search"
    /\ \E answer \in SearchAnswers :
         IF answer.kind = "Err"
         THEN /\ ReturnErr("search", <<"SearchError">>)
              /\ UNCHANGED <<search_results, analysis, result, extracted, calls>>
         ELSE /\ search_results' = answer.value
              /\ SequentialLoop([content |-> <<>>,
                                 visited_results |-> <<>>,
                                 unvisited_results |-> answer.value])
    /\ UNCHANGED <<strategy, completion, sufficient_at>>
    /\ UNCHANGED <<humanVars, treeVars, fanVars>>

SequentialExtractReturn ==
    /\ UNCHANGED <<composerVars, primitiveVars>>
    /\ strategy = "Sequential" /\ pc = "seq_extract"
    /\ \E answer \in ExtractionAnswers :
         LET new_analysis == visit_and_extract_relevant_info(analysis.content, answer) IN
         IF new_analysis.kind = "Err"
         THEN /\ ReturnErr("extract", <<"VisitAndExtractRelevantInfoError">>)
              /\ UNCHANGED <<analysis, calls, completion>>
         ELSE /\ completion' = answer.value
              /\ analysis' = [analysis EXCEPT
                                 !.content = new_analysis.value,
                                 !.visited_results = Append(@, result[1])]
              /\ calls' = Call("sufficient")
              /\ pc' = "seq_check"
              /\ UNCHANGED <<outcome, failed>>
    /\ UNCHANGED <<strategy, search_results, result, extracted, sufficient_at>>
    /\ UNCHANGED <<humanVars, treeVars, fanVars>>

SequentialCheckReturn ==
    /\ UNCHANGED <<composerVars, primitiveVars>>
    /\ strategy = "Sequential" /\ pc = "seq_check"
    /\ \E answer \in SufficiencyAnswers :
         IF answer.kind = "Err"
         THEN /\ ReturnErr("sufficient", <<"SufficientInformationCheckError">>)
              /\ UNCHANGED <<analysis, result, extracted, calls, sufficient_at>>
         ELSE /\ sufficient_at' = IF answer.value THEN Len(extracted) ELSE sufficient_at
              /\ IF SequentialBreak(answer.value)
                 THEN /\ ReturnOk(analysis)
                      /\ UNCHANGED <<analysis, result, extracted, calls>>
                 ELSE SequentialLoop(analysis)
    /\ UNCHANGED <<strategy, search_results, completion>>
    /\ UNCHANGED <<humanVars, treeVars, fanVars>>

(***************************************************************************)
(* Human strategy                                                          *)
(***************************************************************************)
\* The head of the while loop: leave the loop and return, or issue the
\* select-next-result call.
\* `if decision.sufficient { break; }`
HumanBreak(sufficient) == sufficient

HumanLoop(doc, unvisited) ==
    IF unvisited = <<>>
    THEN /\ ReturnOk(doc)
         /\ UNCHANGED calls
    ELSE /\ calls' = Call("select")
         /\ pc' = "human_select"
         /\ UNCHANGED <<outcome, failed>>

HumanSearchReturn ==
    /\ UNCHANGED <<composerVars, primitiveVars>>
    /\ strategy = "Human" /\ pc = "search"
    /\ \E answer \in SearchAnswers :
         IF answer.kind = "Err"
         THEN /\ ReturnErr("search", <<"SearchError">>)
              /\ UNCHANGED <<search_results, analysis, unvisited_results, calls>>
         ELSE /\ search_results' = answer.value
              /\ analysis' = [content |-> <<>>,
                              used_results |-> <<>>,
                              discarded_results |-> <<>>]
              /\ unvisited_results' = answer.value
              /\ HumanLoop(analysis', answer.value)
    /\ UNCHANGED <<strategy, result, extracted, completion, sufficient_at>>
    /\ UNCHANGED <<treeVars, fanVars>>

HumanSelectReturn ==
    /\ UNCHANGED <<composerVars, primitiveVars>>
    /\ strategy = "Human" /\ pc = "human_select"
    /\ \E answer \in SelectAnswers :
         IF answer.kind = "Err"
         THEN /\ ReturnErr("select", <<"SelectNextResultError">>)
              /\ UNCHANGED <<unvisited_results, result, extracted, calls>>
         ELSE IF ~InBounds(unvisited_results, answer.value)
         THEN /\ Panic
              /\ UNCHANGED <<unvisited_results, result, extracted, calls>>
         ELSE /\ result' = <<At(unvisited_results, answer.value)>>
              /\ unvisited_results' = Remove(unvisited_results, answer.value)
              /\ extracted' = Append(extracted,
                     [result |-> At(unvisited_results, answer.value),
                      baseline |-> analysis.content])
              /\ calls' = Call("extract")
              /\ pc' = "human_analyze"
              /\ UNCHANGED <<outcome, failed>>
    /\ UNCHANGED <<strategy, search_results, analysis, completion, sufficient_at>>
    /\ UNCHANGED <<treeVars, fanVars>>

HumanAnalyzeReturn ==
    /\ UNCHANGED <<composerVars, primitiveVars>>
    /\ strategy = "Human" /\ pc = "human_analyze"
    /\ \E answer \in ExtractionAnswers :
         LET decision == visit_and_analyze_result(analysis.content, answer) IN
         IF decision.kind = "Err"
         THEN /\ ReturnErr("extract", <<"AnalysisError">>)
              /\ UNCHANGED <<analysis, calls, completion>>
         ELSE /\ completion' = answer.value
              /\ analysis' =
                   IF decision.value.keep_current
                   THEN [analysis EXCEPT !.discarded_results = Append(@, result[1])]
                   ELSE IF decision.value.new_analysis # <<>>
                   THEN [analysis EXCEPT
                           !.content = decision.value.new_analysis[1],
                           !.used_results = Append(@, result[1])]
                   ELSE analysis
              /\ calls' = Call("sufficient")
              /\ pc' = "human_check"
              /\ UNCHANGED <<outcome, failed>>
    /\ UNCHANGED <<strategy, search_results, unvisited_results, result, extracted,
                   sufficient_at>>
    /\ UNCHANGED <<treeVars, fanVars>>

HumanCheckReturn ==
    /\ UNCHANGED <<composerVars, primitiveVars>>
    /\ strategy = "Human" /\ pc = "human_check"
    /\ \E answer \in SufficiencyAnswers :
         IF answer.kind = "Err"
         THEN /\ ReturnErr("sufficient", <<"InsufficientFindingsCheckError">>)
              /\ UNCHANGED <<calls, sufficient_at>>
         ELSE /\ sufficient_at' = IF answer.value THEN Len(extracted) ELSE sufficient_at
              /\ IF HumanBreak(answer.value)
                 THEN /\ ReturnOk(analysis)
                      /\ UNCHANGED calls
                 ELSE HumanLoop(analysis, unvisited_results)
    /\ UNCHANGED <<strategy, search_results, analysis, unvisited_results, result,
                   extracted, completion>>
    /\ UNCHANGED <<treeVars, fanVars>>

(***************************************************************************)
(* Fan-out: spawn one extraction task per result, join all, aggregate      *)
(***************************************************************************)
\* The analyze-result completions of the spawned tasks: a new findings text
\* and a text with the sentinel in it.
TaskCompletions ==
    { <<"A">>, <<"B", WEB_SEARCH_USE_SAME_WEB_SEARCH_FINDINGS_DOCUMENT>> }

\* What a spawned task can end with: the extraction's answers, or a JoinError.
TaskAnswers ==
    { Err("WebpageParseError"), Err("LLMError"), [kind |-> "JoinError"] }
        \cup { Ok(c) : c \in TaskCompletions }

\* What the aggregate-findings LLM call can answer.
AggregationAnswers == { Err("LLMError"), Ok(<<"A">>), Ok(<<"B">>) }

\* task::spawn for every result of `results`, each with a copy of `baseline`.
SpawnTasks(results, baseline) ==
    [i \in 1..Len(results) |->
        [result |-> results[i], baseline |-> baseline,
         state |-> "running", answer |-> [kind |-> "Pending"],
         output |-> [kind |-> "Pending"]]]

\* The extraction passes a fan-out over `results` issues, in spawn order.
SpawnLog(results, baseline) ==
    [i \in 1..Len(results) |-> [result |-> results[i], baseline |-> baseline]]

\* Spawn the tasks and suspend in join_all.
FanOut(results, baseline) ==
    /\ tasks' = SpawnTasks(results, baseline)
    /\ finish_order' = <<>>
    /\ extraction_results' = <<>>
    /\ extracted' = extracted \o SpawnLog(results, baseline)
    /\ calls' = [calls EXCEPT !.extract = @ + Len(results)]
    /\ pc' = "join"
    /\ UNCHANGED <<outcome, failed>>

\* As TaskFinish, but the tasks share one findings text: a task extracts
\* against the output of the task that completed before it.
TaskFinish_SharedFindings ==
    /\ UNCHANGED <<composerVars, primitiveVars>>
    /\ pc = "join"
    /\ \E i \in DOMAIN tasks :
         /\ tasks[i].state = "running"
         /\ \E answer \in TaskAnswers :
              LET output == IF answer.kind = "JoinError" THEN answer
                            ELSE visit_and_extract_relevant_info(
                                     IF finish_order # <<>>
                                        /\ tasks[finish_order[Len(finish_order)]].output.kind
                                              = "Ok"
                                     THEN tasks[finish_order[Len(finish_order)]].output.value
                                     ELSE tasks[i].baseline,
                                     answer)
              IN /\ tasks' = [tasks EXCEPT ![i] =
                                 [@ EXCEPT !.state = "finished", !.answer = answer,
                                            !.output = output]]
                 /\ failed' =
                      IF output.kind = "Ok" THEN failed
                      ELSE Append(failed,
                             [step |-> "extract",
                              error |-> IF output.kind = "JoinError"
                                        THEN <<"JoinError">>
                                        ELSE <<"VisitAndExtractRelevantInfoError",
                                               output.error>>])
         /\ finish_order' = Append(finish_order, i)
    /\ UNCHANGED <<strategy, pc, search_results, outcome, calls, extracted,
                   extraction_results>>
    /\ UNCHANGED <<seqVars, humanVars, treeVars>>

\* One spawned task runs visit_and_extract_relevant_info to its end.
TaskFinish ==
    /\ UNCHANGED <<composerVars, primitiveVars>>
    /\ pc = "join"
    /\ \E i \in DOMAIN tasks :
         /\ tasks[i].state = "running"
         /\ \E answer \in TaskAnswers :
              LET output == IF answer.kind = "JoinError" THEN answer
                            ELSE visit_and_extract_relevant_info(tasks[i].baseline, answer)
              IN /\ tasks' = [tasks EXCEPT ![i] =
                                 [@ EXCEPT !.state = "finished", !.answer = answer,
                                            !.output = output]]
                 /\ failed' =
                      IF output.kind = "Ok" THEN failed
                      ELSE Append(failed,
                             [step |-> "extract",
                              error |-> IF output.kind = "JoinError"
                                        THEN <<"JoinError">>
                                        ELSE <<"VisitAndExtractRelevantInfoError",
                                               output.error>>])
         /\ finish_order' = Append(finish_order, i)
    /\ UNCHANGED <<strategy, pc, search_results, outcome, calls, extracted,
                   extraction_results>>
    /\ UNCHANGED <<seqVars, humanVars, treeVars>>

AllFinished == \A i \in DOMAIN tasks : tasks[i].state = "finished"

\* The lowest position whose task output is of kind `kind`.
FirstOfKind(kind) ==
    CHOOSE i \in DOMAIN tasks :
        /\ tasks[i].output.kind = kind
        /\ \A j \in 1..(i - 1) : tasks[j].output.kind # kind

\* As below, but output `index` is the output of the index-th task to complete.
CollectExtractionResults_ByCompletion(input) ==
    IF \E i \in DOMAIN tasks : tasks[i].output.kind = "JoinError"
    THEN Err(<<"JoinError">>)
    ELSE IF \E i \in DOMAIN tasks : tasks[i].output.kind = "Err"
    THEN Err(<<"VisitAndExtractRelevantInfoError", tasks[FirstOfKind("Err")].output.error>>)
    ELSE Ok([index \in DOMAIN tasks |->
                [search_result |-> input[index],
                 content |-> tasks[finish_order[index]].output.value]])

\* As below, but a task that failed contributes an empty extraction.
CollectExtractionResults_Salvage(input) ==
    Ok([index \in DOMAIN tasks |->
           [search_result |-> input[index],
            content |-> IF tasks[index].output.kind = "Ok"
                        THEN tasks[index].output.value ELSE <<>>]])

\* The two collect passes over the joined outputs: the first JoinError, else
\* the first extraction error, else output `index` paired with input `index`.
CollectExtractionResults(input) ==
    IF \E i \in DOMAIN tasks : tasks[i].output.kind = "JoinError"
    THEN Err(<<"JoinError">>)
    ELSE IF \E i \in DOMAIN tasks : tasks[i].output.kind = "Err"
    THEN Err(<<"VisitAndExtractRelevantInfoError", tasks[FirstOfKind("Err")].output.error>>)
    ELSE Ok([index \in DOMAIN tasks |->
                [search_result |-> input[index],
                 content |-> tasks[index].output.value]])

\* As below, but the aggregation call is issued before the outputs are checked.
JoinReturn_AggregateFirst(input, wrap) ==
    /\ pc = "join"
    /\ AllFinished
    /\ calls' = Call("aggregate")
    /\ LET collected == CollectExtractionResults(input) IN
         IF collected.kind = "Err"
         THEN /\ pc' = "done"
              /\ outcome' = Err(wrap \o collected.error)
              /\ UNCHANGED extraction_results
         ELSE /\ extraction_results' = collected.value
              /\ pc' = "aggregate"
              /\ UNCHANGED outcome
    /\ UNCHANGED <<strategy, search_results, extracted, failed, tasks, finish_order>>
    /\ UNCHANGED <<seqVars, humanVars, treeVars>>

\* As below, but the fan-out returns as soon as one task has failed.
JoinReturn_OnFirstFailure(input, wrap) ==
    /\ pc = "join"
    /\ \/ AllFinished
       \/ \E i \in DOMAIN tasks : tasks[i].output.kind \in {"Err", "JoinError"}
    /\ LET collected == CollectExtractionResults(input) IN
         IF collected.kind = "Err"
         THEN /\ pc' = "done"
              /\ outcome' = Err(wrap \o collected.error)
              /\ UNCHANGED <<extraction_results, calls>>
         ELSE /\ extraction_results' = collected.value
              /\ calls' = Call("aggregate")
              /\ pc' = "aggregate"
              /\ UNCHANGED outcome
    /\ UNCHANGED <<strategy, search_results, extracted, failed, tasks, finish_order>>
    /\ UNCHANGED <<seqVars, humanVars, treeVars>>

\* join_all has returned: fail, or hand the list to the aggregation pass.
\* The failures themselves were recorded when the tasks finished.
JoinReturn(input, wrap) ==
    /\ pc = "join"
    /\ AllFinished
    /\ LET collected == CollectExtractionResults(input) IN
         IF collected.kind = "Err"
         THEN /\ pc' = "done"
              /\ outcome' = Err(wrap \o collected.error)
              /\ UNCHANGED <<extraction_results, calls>>
         ELSE /\ extraction_results' = collected.value
              /\ calls' = Call("aggregate")
              /\ pc' = "aggregate"
              /\ UNCHANGED outcome
    /\ UNCHANGED <<strategy, search_results, extracted, failed, tasks, finish_order>>
    /\ UNCHANGED <<seqVars, humanVars, treeVars>>

(***************************************************************************)
(* Parallel strategy                                                       *)
(***************************************************************************)
\* As below, but the visited list is in the order the tasks completed.
ParallelAnalysis_ByCompletion(content) ==
    [content |-> content,
     visited_results |-> [i \in DOMAIN finish_order |-> search_results[finish_order[i]]],
     unvisited_results |-> <<>>]

\* The AnalysisDocument a Parallel run returns.
ParallelAnalysis(content) ==
    [content |-> content,
     visited_results |-> search_results,
     unvisited_results |-> <<>>]

ParallelSearchReturn ==
    /\ UNCHANGED <<composerVars, primitiveVars>>
    /\ strategy = "Parallel" /\ pc = "search"
    /\ \E answer \in SearchAnswers :
         IF answer.kind = "Err"
         THEN /\ ReturnErr("search", <<"SearchError">>)
              /\ UNCHANGED <<search_results, extracted, calls, fanVars>>
         ELSE /\ search_results' = answer.value
              /\ FanOut(answer.value, <<>>)
    /\ UNCHANGED strategy
    /\ UNCHANGED <<seqVars, humanVars, treeVars>>

ParallelJoinReturn ==
    /\ UNCHANGED <<composerVars, primitiveVars>>
    /\ strategy = "Parallel"
    /\ JoinReturn(search_results, <<>>)

ParallelAggregateReturn ==
    /\ UNCHANGED <<composerVars, primitiveVars>>
    /\ strategy = "Parallel" /\ pc = "aggregate"
    /\ \E answer \in AggregationAnswers :
         IF answer.kind = "Err"
         THEN ReturnErr("aggregate", <<"AggregationPassError">>)
         ELSE ReturnOk(ParallelAnalysis(answer.value))
    /\ UNCHANGED <<strategy, search_results, calls, extracted>>
    /\ UNCHANGED <<seqVars, humanVars, treeVars, fanVars>>

(***************************************************************************)
(* ParallelTree strategy                                                   *)
(***************************************************************************)
\* The trees the dependency-tree LLM call may answer with: serde accepts any
\* list of lists of usize.  Levels(size) are the levels of at most `size`
\* indices, TreesOf(levels, size) the trees of at most `levels` levels and
\* `size` indices in all.
Levels(size) == UNION { [1..k -> Indices] : k \in 0..size }

RECURSIVE TreesOf(_, _)
TreesOf(levels, size) ==
    IF levels = 0 THEN { <<>> }
    ELSE { <<>> } \cup
         UNION { { <<first>> \o rest : rest \in TreesOf(levels - 1, size - Len(first)) } :
                 first \in Levels(size) }

Trees == TreesOf(MaxLevels, MaxTreeSize)

TreeAnswers ==
    { Err("LLMError"), Err("ParseError") } \cup { Ok(t) : t \in Trees }

\* The positions of a level whose index is not an index of search_results.
OutOfBounds(level_indices) ==
    { k \in DOMAIN level_indices : ~InBounds(search_results, level_indices[k]) }

\* The indices search_results[idx] is evaluated with when the level is
\* mapped: all of them, or those up to the first one that panics.
Indexed(level_indices) ==
    { level_indices[k] : k \in
        { k \in DOMAIN level_indices : \A b \in OutOfBounds(level_indices) : k <= b } }

\* As TreeLoop, but every level is extracted against empty findings.
TreeLoop_EmptyBaseline(tree, done, content, visited) ==
    IF done = Len(tree)
    THEN /\ ReturnOk([content |-> content,
                      visited_results |-> visited,
                      unvisited_results |-> <<>>])
         /\ UNCHANGED <<level_results, selected, extracted, calls, fanVars>>
    ELSE LET level_indices == tree[done + 1] IN
         /\ selected' = selected \cup Indexed(level_indices)
         /\ IF OutOfBounds(level_indices) # {}
            THEN /\ Panic
                 /\ UNCHANGED <<level_results, extracted, calls, fanVars>>
            ELSE /\ level_results' =
                      [k \in DOMAIN level_indices |-> At(search_results, level_indices[k])]
                 /\ FanOut(level_results', <<>>)

\* As TreeLoop, but a level without indices is skipped with its successors.
TreeLoop_StopAtEmptyLevel(tree, done, content, visited) ==
    IF done = Len(tree) \/ tree[done + 1] = <<>>
    THEN /\ ReturnOk([content |-> content,
                      visited_results |-> visited,
                      unvisited_results |-> <<>>])
         /\ UNCHANGED <<level_results, selected, extracted, calls, fanVars>>
    ELSE LET level_indices == tree[done + 1] IN
         /\ selected' = selected \cup Indexed(level_indices)
         /\ IF OutOfBounds(level_indices) # {}
            THEN /\ Panic
                 /\ UNCHANGED <<level_results, extracted, calls, fanVars>>
            ELSE /\ level_results' =
                      [k \in DOMAIN level_indices |-> At(search_results, level_indices[k])]
                 /\ FanOut(level_results', content)

\* The for loop over the levels after `done` levels, with findings `content`
\* and visited list `visited`: return, or process_level of the next level up
\* to its join_all.
TreeLoop(tree, done, content, visited) ==
    IF done = Len(tree)
    THEN /\ ReturnOk([content |-> content,
                      visited_results |-> visited,
                      unvisited_results |-> <<>>])
         /\ UNCHANGED <<level_results, selected, extracted, calls, fanVars>>
    ELSE LET level_indices == tree[done + 1] IN
         /\ selected' = selected \cup Indexed(level_indices)
         /\ IF OutOfBounds(level_indices) # {}
            THEN /\ Panic
                 /\ UNCHANGED <<level_results, extracted, calls, fanVars>>
            ELSE /\ level_results' =
                      [k \in DOMAIN level_indices |-> At(search_results, level_indices[k])]
                 /\ FanOut(level_results', content)

TreeSearchReturn ==
    /\ UNCHANGED <<composerVars, primitiveVars>>
    /\ strategy = "ParallelTree" /\ pc = "search"
    /\ \E answer \in SearchAnswers :
         IF answer.kind = "Err"
         THEN /\ ReturnErr("search", <<"SearchError">>)
              /\ UNCHANGED <<search_results, calls>>
         ELSE /\ search_results' = answer.value
              /\ calls' = Call("tree")
              /\ pc' = "tree_construct"
              /\ UNCHANGED <<outcome, failed>>
    /\ UNCHANGED <<strategy, extracted>>
    /\ UNCHANGED <<seqVars, humanVars, treeVars, fanVars>>

TreeConstructReturn ==
    /\ UNCHANGED <<composerVars, primitiveVars>>
    /\ strategy = "ParallelTree" /\ pc = "tree_construct"
    /\ \E answer \in TreeAnswers :
         IF answer.kind = "Err"
         THEN /\ ReturnErr("tree", <<"TreeConstructionError">>)
              /\ UNCHANGED <<dependency_tree, level_results, selected, extracted,
                             calls, fanVars>>
         ELSE /\ dependency_tree' = answer.value
              /\ TreeLoop(answer.value, 0, <<>>, <<>>)
    /\ UNCHANGED <<strategy, search_results, level, current_analysis, visited_results,
                   aggregated>>
    /\ UNCHANGED <<seqVars, humanVars>>

TreeJoinReturn ==
    /\ UNCHANGED <<composerVars, primitiveVars>>
    /\ strategy = "ParallelTree"
    /\ JoinReturn(level_results, <<"ParallelAgentSearchError">>)

TreeAggregateReturn ==
    /\ UNCHANGED <<composerVars, primitiveVars>>
    /\ strategy = "ParallelTree" /\ pc = "aggregate"
    /\ \E answer \in AggregationAnswers :
         IF answer.kind = "Err"
         THEN /\ ReturnErr("aggregate",
                           <<"ParallelAgentSearchError", "AggregationPassError">>)
              /\ UNCHANGED <<level, level_results, current_analysis, visited_results,
                             selected, aggregated, extracted, calls, fanVars>>
         ELSE /\ current_analysis' = answer.value
              /\ aggregated' = Append(aggregated, answer.value)
              /\ visited_results' = visited_results \o
                    [k \in DOMAIN dependency_tree[level + 1] |->
                        At(search_results, dependency_tree[level + 1][k])]
              /\ level' = level + 1
              /\ TreeLoop(dependency_tree, level', current_analysis', visited_results')
    /\ UNCHANGED <<strategy, search_results, dependency_tree>>
    /\ UNCHANGED <<seqVars, humanVars>>

Next ==
    \/ SequentialSearchReturn
    \/ SequentialExtractReturn
    \/ SequentialCheckReturn
    \/ HumanSearchReturn
    \/ HumanSelectReturn
    \/ HumanAnalyzeReturn
    \/ HumanCheckReturn
    \/ ParallelSearchReturn
    \/ TaskFinish
    \/ ParallelJoinReturn
    \/ ParallelAggregateReturn
    \/ TreeSearchReturn
    \/ TreeConstructReturn
    \/ TreeJoinReturn
    \/ TreeAggregateReturn

Spec == Init /\ [][Next]_vars

(***************************************************************************)
(* Query-strategy composer (agent_search).  One behaviour of ComposerSpec   *)
(* is one request: one call of agent_search and the formatting of what it   *)
(* returns; a sub-search (agent_search_with_query) is a collaborator whose  *)
(* answer is nondeterministic.                                              *)
(***************************************************************************)
MaxQueries == 2

QueryStrategy ==
    {"Verbatim", "SingleSynthesize", "ParallelSynthesize", "SequentialSynthesize"}

Queries == {"q1", "q2"}

\* What synthesize_queries can answer under the query strategy `qs`: Verbatim
\* answers the original query, SingleSynthesize one query, the multi-query
\* strategies the list the LLM wrote, which nothing validates.
SynthesisAnswers(qs) ==
    IF qs = "Verbatim" THEN { Ok(<<"q1">>) }
    ELSE IF qs = "SingleSynthesize"
         THEN { Err("QuerySynthesisError") } \cup { Ok(<<q>>) : q \in Queries }
         ELSE { Err("QuerySynthesisError") }
              \cup { Ok(l) : l \in UNION { [1..n -> Queries] : n \in 0..MaxQueries } }

\* The separator of format!("{}\n\n{}", ...), as one chunk.
BlankLine == "\n\n"

\* Documents a traversal strategy can return.
SubAnalyses ==
    { [content |-> <<>>, visited_results |-> <<>>, unvisited_results |-> <<>>],
      [content |-> <<>>, visited_results |-> <<SearchResult(0)>>,
       unvisited_results |-> <<SearchResult(1)>>],
      [content |-> <<"A">>, visited_results |-> <<SearchResult(0)>>,
       unvisited_results |-> <<SearchResult(1)>>],
      [content |-> <<"B">>, visited_results |-> <<SearchResult(1)>>,
       unvisited_results |-> <<>>] }

\* What agent_search_with_query can answer for `query`: the strategy's error,
\* or its document with queries_executed = vec![query].
SubSearchAnswers(query) ==
    { Err("AgentSingleSearchError") }
    \cup { Ok([analysis |-> d, queries_executed |-> <<query>>]) : d \in SubAnalyses }

\* A spawned sub-search can also end in a JoinError.
SubTaskAnswers(query) == SubSearchAnswers(query) \cup { [kind |-> "JoinError"] }

EmptyAgentSearchResult ==
    [analysis |-> [content |-> <<>>, visited_results |-> <<>>, unvisited_results |-> <<>>],
     queries_executed |-> <<>>]

ComposerReturn(value) ==
    /\ composer_pc' = "done"
    /\ agent_search_result' = value

\* The calls a request issues, as log entries.  A sub-search is one call of
\* agent_search_with_query; every traversal strategy opens with its metasearch
\* call, which stands for the start of the sub-search of the i-th query.
LlmCall(by) == [call |-> "llm", by |-> by]
SearxCall(i) == [call |-> "searx", by |-> i]
SubSearchReturned(i, ok) == [call |-> "return", by |-> i, ok |-> ok]

ResultFormat ==
    {"Answer", "ResearchSummary", "FAQArticle", "NewsArticle", "Webpage", "Custom"}

\* Option<&str>: None, or a description.
Descriptions == { <<>>, <<"d">> }

\* The fields of the request's SearchInput that agent_search hands on to its
\* sub-searches; an Option is <<>> (None) or <<x>> (Some(x)).
AgentSearchInputs ==
    { [current_search_result |-> <<>>, search_strategy |-> <<>>,
       max_results_to_visit |-> <<>>],
      [current_search_result |-> <<SearchResult(0)>>, search_strategy |-> <<"Parallel">>,
       max_results_to_visit |-> <<1>>],
      [current_search_result |-> <<SearchResult(1)>>, search_strategy |-> <<"Sequential">>,
       max_results_to_visit |-> <<2>>] }

\* search_strategy.clone().unwrap_or_default()
SearchStrategyOf(input) ==
    IF input.search_strategy = <<>> THEN "Human" ELSE input.search_strategy[1]

\* As below, but the sub-search runs with the default number of results.
ModifiedInput_DefaultMax(input, query) ==
    [query |-> query,
     current_search_result |-> input.current_search_result,
     search_strategy |-> <<SearchStrategyOf(input)>>,
     query_strategy |-> <<>>,
     max_results_to_visit |-> <<>>]

\* The `modified_input` every branch of the composer builds for a sub-search.
ModifiedInput(input, query) ==
    [query |-> query,
     current_search_result |-> input.current_search_result,
     search_strategy |-> <<SearchStrategyOf(input)>>,
     query_strategy |-> <<>>,
     max_results_to_visit |-> input.max_results_to_visit]

\* As below, but the queries of the running result are replaced along with an
\* empty document.
MergeStep_ReplaceQueries(acc, res) ==
    IF acc.analysis.content = <<>>
    THEN res
    ELSE [analysis |->
            [content |-> acc.analysis.content \o <<BlankLine>> \o res.analysis.content,
             visited_results |->
                 acc.analysis.visited_results \o res.analysis.visited_results,
             unvisited_results |->
                 acc.analysis.unvisited_results \o res.analysis.unvisited_results],
          queries_executed |-> acc.queries_executed \o res.queries_executed]

\* One iteration of the merge loop of the Parallel composer.
MergeStep(acc, res) ==
    [analysis |->
        IF acc.analysis.content = <<>>
        THEN res.analysis
        ELSE [content |-> acc.analysis.content \o <<BlankLine>> \o res.analysis.content,
              visited_results |->
                  acc.analysis.visited_results \o res.analysis.visited_results,
              unvisited_results |->
                  acc.analysis.unvisited_results \o res.analysis.unvisited_results],
     queries_executed |-> acc.queries_executed \o res.queries_executed]

\* The merge loop: `for res in results { ... }`.
RECURSIVE MergeResults(_, _)
MergeResults(acc, results) ==
    IF results = <<>> THEN acc
    ELSE MergeResults(MergeStep(acc, Head(results)), Tail(results))

\* The spawned sub-searches, in the order of the queries.
SpawnSubSearches(queries) ==
    [i \in DOMAIN queries |-> [query |-> queries[i], state |-> "running", output |-> <<>>]]

ComposerInit ==
    /\ query_strategy \in QueryStrategy
    /\ synthesized_queries = <<>>
    /\ composer_pc = "synthesize"
    /\ sub_searches = <<>>
    /\ sub_finish_order = <<>>
    /\ cur_result = <<>>
    /\ sub_outputs = <<>>
    /\ agent_search_result = Running
    /\ request_input \in AgentSearchInputs
    /\ sub_inputs = <<>>
    /\ result_format \in ResultFormat
    /\ custom_format_description \in Descriptions
    /\ request_pc = "agent_search"
    /\ request_log = IF query_strategy = "Verbatim" THEN <<>>
                     ELSE <<LlmCall("synthesize_queries")>>
    /\ format_request = <<>>
    /\ format_completion = <<>>
    /\ final_result = Running
    /\ strategy = "Human"
    /\ pc = "idle"
    /\ search_results = <<>>
    /\ analysis = [content |-> <<>>]
    /\ unvisited_results = <<>>
    /\ result = <<>>
    /\ outcome = Running
    /\ calls = NoCalls
    /\ extracted = <<>>
    /\ failed = <<>>
    /\ completion = <<>>
    /\ sufficient_at = -1
    /\ dependency_tree = <<>>
    /\ level = 0
    /\ current_analysis = <<>>
    /\ visited_results = <<>>
    /\ tasks = <<>>
    /\ finish_order = <<>>
    /\ extraction_results = <<>>
    /\ level_results = <<>>
    /\ selected = {}
    /\ aggregated = <<>>
    /\ PrimitiveIdle

\* synthesize_queries returned: the match on the query strategy up to its
\* first await.
SynthesizeReturn ==
    /\ composer_pc = "synthesize"
    /\ \E answer \in SynthesisAnswers(query_strategy) :
         IF answer.kind = "Err"
         THEN /\ ComposerReturn(Err(<<"QuerySynthesisError">>))
              /\ UNCHANGED <<synthesized_queries, sub_searches, request_log, sub_inputs>>
         ELSE /\ synthesized_queries' = answer.value
              /\ IF query_strategy \in {"Verbatim", "SingleSynthesize"}
                 THEN \* queries.first().unwrap()
                      /\ IF answer.value = <<>>
                         THEN /\ ComposerReturn([kind |-> "Panic"])
                              /\ UNCHANGED <<request_log, sub_inputs>>
                         ELSE /\ composer_pc' = "single"
                              /\ request_log' = Append(request_log, SearxCall(1))
                              /\ sub_inputs' =
                                    <<ModifiedInput(request_input, Head(answer.value))>>
                              /\ UNCHANGED agent_search_result
                      /\ UNCHANGED sub_searches
                 ELSE IF query_strategy = "ParallelSynthesize"
                 THEN /\ sub_searches' = SpawnSubSearches(answer.value)
                      /\ request_log' = request_log \o
                            [i \in DOMAIN answer.value |-> SearxCall(i)]
                      /\ sub_inputs' =
                            [i \in DOMAIN answer.value |->
                                ModifiedInput(request_input, answer.value[i])]
                      /\ composer_pc' = "join"
                      /\ UNCHANGED agent_search_result
                 ELSE \* the for loop; after it, Ok(cur_result.unwrap())
                      /\ IF answer.value = <<>>
                         THEN /\ ComposerReturn([kind |-> "Panic"])
                              /\ UNCHANGED <<request_log, sub_inputs>>
                         ELSE /\ composer_pc' = "sequential"
                              /\ request_log' = Append(request_log, SearxCall(1))
                              /\ sub_inputs' =
                                    <<ModifiedInput(request_input, Head(answer.value))>>
                              /\ UNCHANGED agent_search_result
                      /\ UNCHANGED sub_searches
    /\ UNCHANGED <<query_strategy, sub_finish_order, cur_result, sub_outputs>>
    /\ UNCHANGED <<request_input, result_format, custom_format_description, request_pc,
                   format_request, format_completion, final_result>>
    /\ UNCHANGED <<strategyVars, primitiveVars>>

\* Verbatim / SingleSynthesize: the one sub-search returned.
SingleSubSearchReturn ==
    /\ composer_pc = "single"
    /\ \E answer \in SubSearchAnswers(Head(synthesized_queries)) :
         IF answer.kind = "Err"
         THEN /\ ComposerReturn(Err(<<"SingleSearchError">>))
              /\ UNCHANGED sub_outputs
         ELSE /\ ComposerReturn(Ok(answer.value))
              /\ sub_outputs' = Append(sub_outputs, answer.value)
    /\ request_log' = Append(request_log,
                             SubSearchReturned(1, agent_search_result'.kind = "Ok"))
    /\ UNCHANGED sub_inputs
    /\ UNCHANGED <<query_strategy, synthesized_queries, sub_searches, sub_finish_order,
                   cur_result>>
    /\ UNCHANGED <<request_input, result_format, custom_format_description, request_pc,
                   format_request, format_completion, final_result>>
    /\ UNCHANGED <<strategyVars, primitiveVars>>

\* ParallelSynthesize: one spawned sub-search completes.
SubSearchFinish ==
    /\ composer_pc = "join"
    /\ \E i \in DOMAIN sub_searches :
         /\ sub_searches[i].state = "running"
         /\ \E answer \in SubTaskAnswers(sub_searches[i].query) :
              sub_searches' = [sub_searches EXCEPT ![i].state = "finished",
                                                   ![i].output = answer]
         /\ sub_finish_order' = Append(sub_finish_order, i)
         /\ request_log' = Append(request_log,
                                  SubSearchReturned(i, sub_searches'[i].output.kind = "Ok"))
    /\ UNCHANGED <<query_strategy, synthesized_queries, composer_pc, cur_result,
                   sub_outputs, agent_search_result, sub_inputs>>
    /\ UNCHANGED <<request_input, result_format, custom_format_description, request_pc,
                   format_request, format_completion, final_result>>
    /\ UNCHANGED <<strategyVars, primitiveVars>>

\* ParallelSynthesize: join_all returned; the first failure in spawn order is
\* returned, otherwise the results are merged.
ComposerJoinReturn ==
    /\ composer_pc = "join"
    /\ \A i \in DOMAIN sub_searches : sub_searches[i].state = "finished"
    /\ LET bad == { i \in DOMAIN sub_searches : sub_searches[i].output.kind # "Ok" }
           results == [i \in DOMAIN sub_searches |-> sub_searches[i].output.value]
       IN IF bad # {}
          THEN LET first == CHOOSE i \in bad : \A j \in bad : i <= j IN
               /\ ComposerReturn(
                    IF sub_searches[first].output.kind = "JoinError"
                    THEN Err(<<"SingleSearchError", "ParallelAgentSearchError", "JoinError">>)
                    ELSE Err(<<"SingleSearchError">>))
               /\ UNCHANGED sub_outputs
          ELSE /\ ComposerReturn(Ok(MergeResults(EmptyAgentSearchResult, results)))
               /\ sub_outputs' = results
    /\ UNCHANGED <<query_strategy, synthesized_queries, sub_searches, sub_finish_order,
                   cur_result>>
    /\ UNCHANGED requestVars
    /\ UNCHANGED <<strategyVars, primitiveVars>>

\* As SequentialSubSearchReturn, but a failed sub-search is skipped and the
\* loop goes on with the next query.
SequentialSubSearchReturn_SkipFailure ==
    /\ composer_pc = "sequential"
    /\ \E answer \in SubSearchAnswers(synthesized_queries[Len(sub_outputs) + 1]) :
         LET returned_log ==
                 Append(request_log,
                        SubSearchReturned(Len(sub_outputs) + 1, answer.kind = "Ok"))
             next_input ==
                 ModifiedInput(request_input, synthesized_queries[Len(sub_outputs) + 2])
         IN
         IF answer.kind = "Err"
         THEN /\ IF Len(sub_outputs) + 1 = Len(synthesized_queries)
                 THEN /\ ComposerReturn(Err(<<"SingleSearchError">>))
                      /\ request_log' = returned_log
                      /\ UNCHANGED <<sub_outputs, sub_inputs>>
                 ELSE /\ request_log' =
                           Append(returned_log, SearxCall(Len(sub_outputs) + 2))
                      /\ sub_inputs' = Append(sub_inputs, next_input)
                      /\ sub_outputs' = Append(sub_outputs, EmptyAgentSearchResult)
                      /\ UNCHANGED <<composer_pc, agent_search_result>>
              /\ UNCHANGED cur_result
         ELSE /\ sub_outputs' = Append(sub_outputs, answer.value)
              /\ IF cur_result = <<>>
                 THEN \* cur_result.unwrap() on None
                      /\ ComposerReturn([kind |-> "Panic"])
                      /\ request_log' = returned_log
                      /\ UNCHANGED <<cur_result, sub_inputs>>
                 ELSE LET next ==
                              [analysis |-> answer.value.analysis,
                               queries_executed |->
                                   cur_result[1].queries_executed
                                       \o answer.value.queries_executed]
                      IN /\ cur_result' = <<next>>
                         /\ IF Len(sub_outputs) + 1 = Len(synthesized_queries)
                            THEN /\ ComposerReturn(Ok(next))
                                 /\ request_log' = returned_log
                                 /\ UNCHANGED sub_inputs
                            ELSE /\ request_log' =
                                      Append(returned_log, SearxCall(Len(sub_outputs) + 2))
                                 /\ sub_inputs' = Append(sub_inputs, next_input)
                                 /\ UNCHANGED <<composer_pc, agent_search_result>>
    /\ UNCHANGED <<query_strategy, synthesized_queries, sub_searches, sub_finish_order>>
    /\ UNCHANGED <<request_input, result_format, custom_format_description, request_pc,
                   format_request, format_completion, final_result>>
    /\ UNCHANGED <<strategyVars, primitiveVars>>

\* SequentialSynthesize: the sub-search of the current query returned; the rest
\* of the loop body, then the next iteration or the return.
SequentialSubSearchReturn ==
    /\ composer_pc = "sequential"
    /\ \E answer \in SubSearchAnswers(synthesized_queries[Len(sub_outputs) + 1]) :
         LET returned_log ==
                 Append(request_log,
                        SubSearchReturned(Len(sub_outputs) + 1, answer.kind = "Ok"))
             next_input ==
                 ModifiedInput(request_input, synthesized_queries[Len(sub_outputs) + 2])
         IN
         IF answer.kind = "Err"
         THEN /\ ComposerReturn(Err(<<"SingleSearchError">>))
              /\ request_log' = returned_log
              /\ UNCHANGED <<cur_result, sub_outputs, sub_inputs>>
         ELSE /\ sub_outputs' = Append(sub_outputs, answer.value)
              /\ IF cur_result = <<>>
                 THEN \* cur_result.unwrap() on None
                      /\ ComposerReturn([kind |-> "Panic"])
                      /\ request_log' = returned_log
                      /\ UNCHANGED <<cur_result, sub_inputs>>
                 ELSE LET next ==
                              [analysis |-> answer.value.analysis,
                               queries_executed |->
                                   cur_result[1].queries_executed
                                       \o answer.value.queries_executed]
                      IN /\ cur_result' = <<next>>
                         /\ IF Len(sub_outputs) + 1 = Len(synthesized_queries)
                            THEN /\ ComposerReturn(Ok(next))
                                 /\ request_log' = returned_log
                                 /\ UNCHANGED sub_inputs
                            ELSE /\ request_log' =
                                      Append(returned_log, SearxCall(Len(sub_outputs) + 2))
                                 /\ sub_inputs' = Append(sub_inputs, next_input)
                                 /\ UNCHANGED <<composer_pc, agent_search_result>>
    /\ UNCHANGED <<query_strategy, synthesized_queries, sub_searches, sub_finish_order>>
    /\ UNCHANGED <<request_input, result_format, custom_format_description, request_pc,
                   format_request, format_completion, final_result>>
    /\ UNCHANGED <<strategyVars, primitiveVars>>

(***************************************************************************)
(* The request around agent_search: the findings agent_search returns are  *)
(* handed to the result formatter, once.                                   *)
(***************************************************************************)
\* What the formatter's LLM call can answer; a completion is the list of its
\* lines, the text between its newlines: one line when it has no newline, a
\* last line "" when it ends with one.
FormatCompletions ==
    { Err("LLMError"), Ok(<<"">>), Ok(<<"T">>), Ok(<<"T", "">>), Ok(<<"", "body">>),
      Ok(<<"T", "body">>), Ok(<<"T", "body", "more">>) }

\* The query of the request.
UserQuery == "X"

\* The prompt a formatter builds: the system prompt of the format and what
\* its context is formatted from; a part the format leaves out is <<>>.
FormatPrompt(format, description, query, analysis_document) ==
    [instruction |-> format,
     description |-> IF format = "Custom" THEN description ELSE <<>>,
     query |-> IF format \in {"NewsArticle", "Webpage"} THEN <<>> ELSE <<query>>,
     search_results |-> analysis_document.visited_results]

\* As below, but the first line is the title also when it is the only line.
SplitTitle_FirstLine(lines, default) ==
    [title |-> <<Head(lines)>>, content |-> Tail(lines)]

\* completion.splitn(2, "\n"): two parts when there is a newline.
SplitTitle(lines, default) ==
    IF Len(lines) >= 2
    THEN [title |-> <<Head(lines)>>, content |-> Tail(lines)]
    ELSE [title |-> <<default>>, content |-> lines]

\* The ResultFormatResponse of `format` built from the completion `lines`.
ResultFormatResponse(format, lines) ==
    IF format \in {"Answer", "ResearchSummary", "Custom"}
    THEN [format |-> format, value |-> lines]
    ELSE IF format = "FAQArticle"
    THEN [format |-> format,
          value |-> [title |-> <<"Frequently Asked Questions">>, content |-> lines]]
    ELSE IF format = "NewsArticle"
    THEN [format |-> format, value |-> SplitTitle(lines, "News Article")]
    ELSE [format |-> format, value |-> SplitTitle(lines, "Webpage")]

\* format_result issues its LLM call unless the format is Custom and the
\* description is None.
FormatCallsLlm(format, description) == ~(format = "Custom" /\ description = <<>>)

\* format_result, given the answer of its LLM call.
format_result(format, description, answer) ==
    IF ~FormatCallsLlm(format, description)
    THEN Err(<<"CustomFormatDescriptionMissing">>)
    ELSE IF answer.kind = "Err"
    THEN Err(<<"LLMError">>)
    ELSE Ok(ResultFormatResponse(format, answer.value))

RequestReturn(value) ==
    /\ request_pc' = "done"
    /\ final_result' = value

\* agent_search returned to the request: its failure is the request's, its
\* result goes to format_result, which runs up to its LLM call.
RequestFormatResult ==
    /\ request_pc = "agent_search"
    /\ composer_pc = "done"
    /\ IF agent_search_result.kind # "Ok"
       THEN /\ RequestReturn(agent_search_result)
            /\ UNCHANGED <<request_log, format_request>>
       ELSE IF FormatCallsLlm(result_format, custom_format_description)
       THEN /\ request_pc' = "format_result"
            /\ request_log' = Append(request_log, LlmCall("format_result"))
            /\ format_request' =
                  <<FormatPrompt(result_format, custom_format_description, UserQuery,
                                 agent_search_result.value.analysis)>>
            /\ UNCHANGED final_result
       ELSE /\ RequestReturn(format_result(result_format, custom_format_description, <<>>))
            /\ UNCHANGED <<request_log, format_request>>
    /\ UNCHANGED <<query_strategy, synthesized_queries, composer_pc, sub_searches,
                   sub_finish_order, cur_result, sub_outputs, agent_search_result>>
    /\ UNCHANGED <<request_input, sub_inputs, result_format, custom_format_description,
                   format_completion>>
    /\ UNCHANGED <<strategyVars, primitiveVars>>

\* The formatter's LLM call returned.
FormatResultReturn ==
    /\ request_pc = "format_result"
    /\ \E answer \in FormatCompletions :
         /\ format_completion' = <<answer>>
         /\ RequestReturn(format_result(result_format, custom_format_description, answer))
    /\ UNCHANGED <<query_strategy, synthesized_queries, composer_pc, sub_searches,
                   sub_finish_order, cur_result, sub_outputs, agent_search_result>>
    /\ UNCHANGED <<request_input, sub_inputs, result_format, custom_format_description,
                   request_log, format_request>>
    /\ UNCHANGED <<strategyVars, primitiveVars>>

ComposerNext ==
    \/ SynthesizeReturn
    \/ SingleSubSearchReturn
    \/ SubSearchFinish
    \/ ComposerJoinReturn
    \/ SequentialSubSearchReturn
    \/ RequestFormatResult
    \/ FormatResultReturn

ComposerSpec == ComposerInit /\ [][ComposerNext]_vars

(***************************************************************************)
(* Primitives.  One behaviour of PrimitiveSpec is one call of one          *)
(* primitive: the metasearch client, the page fetcher, the LLM gateway,    *)
(* the scrape formatter, the JSON extractor, the webpage cleaner or the    *)
(* builder of the query text.  The HTTP peers answer nondeterministically. *)
(***************************************************************************)
PrimitiveReturn(value) ==
    /\ primitive_pc' = "done"
    /\ returned' = value

Sent(collaborator) == [sends EXCEPT ![collaborator] = @ + 1]

Min(a, b) == IF a < b THEN a ELSE b

(***************************************************************************)
(* Metasearch client (search)                                              *)
(***************************************************************************)
MaxRequested == 9
MaxPageLen == 9
\* usize is modelled as a word of WordBits bits.
WordBits == 6

MAX_RESULTS_TO_VISIT == 10
SEARX_RESULTS_PER_PAGE == 8

\* The number of values of a usize; usize::MAX is Word - 1.
Word == 2 ^ WordBits

\* max_results_to_visit: None, or Some(n) for a small n or for one of the
\* largest values of the word.
SearchInputs ==
    { <<>> } \cup { <<n>> : n \in 0..MaxRequested }
             \cup { <<n>> : n \in (Word - SEARX_RESULTS_PER_PAGE + 1)..(Word - 1) }

\* search_input.max_results_to_visit.unwrap_or(MAX_RESULTS_TO_VISIT)
MaxResultsOf(search_input) ==
    IF search_input = <<>> THEN MAX_RESULTS_TO_VISIT ELSE search_input[1]

\* `max_results + SEARX_RESULTS_PER_PAGE` does not fit the word: with overflow
\* checks (the dev profile) the addition panics.
NumPagesOverflows(max_results) == max_results + SEARX_RESULTS_PER_PAGE >= Word

\* num_pages as the wrapping arithmetic of a build without overflow checks
\* (the release profile) computes it.
NumPages(max_results) ==
    ((max_results + SEARX_RESULTS_PER_PAGE - 1) % Word) \div SEARX_RESULTS_PER_PAGE

\* The results page `pageno` of the backend lists when it has n of them.
PageResults(pageno, n) == [k \in 1..n |-> SearchResult(<<pageno, k - 1>>)]

\* What the backend can answer to the request of page `pageno`: no answer
\* (transport error), or a status with a body that decodes or not.
PageResponses(pageno) ==
    { [kind |-> "TransportError"] }
    \cup { [kind |-> "Response", status |-> 500, body |-> <<"garbage">>],
           [kind |-> "Response", status |-> 200, body |-> <<"garbage">>] }
    \cup { [kind |-> "Response", status |-> 500,
            body |-> <<"results", PageResults(pageno, 1)>>] }
    \cup { [kind |-> "Response", status |-> 200,
            body |-> <<"results", PageResults(pageno, n)>>] : n \in 0..MaxPageLen }

\* StatusCode::is_success
IsSuccess(status) == status >= 200 /\ status <= 299

\* As below, but the status is not looked at.
single_page_search_IgnoreStatus(resp) ==
    IF resp.kind = "TransportError" THEN Err(<<"RequestError">>)
    ELSE IF resp.body[1] # "results" THEN Err(<<"RequestError">>)
    ELSE Ok(resp.body[2])

\* single_page_search, from the backend's answer on.
single_page_search(resp) ==
    IF resp.kind = "TransportError" THEN Err(<<"RequestError">>)
    ELSE IF ~IsSuccess(resp.status) THEN Err(<<"SearxError", resp.status>>)
    ELSE IF resp.body[1] # "results" THEN Err(<<"RequestError">>)
    ELSE Ok(resp.body[2])

\* The page requests created for join_all, in page-number order.
PageRequests(num_pages) ==
    [pageno \in 1..num_pages |-> [state |-> "pending", response |-> <<>>, output |-> <<>>]]

\* As below, but in the order the requests completed.
JoinAllPages_ByCompletion(requests, order) ==
    [i \in DOMAIN order |-> requests[order[i]].output]

\* What join_all hands back: the outputs in the order of the futures.
JoinAllPages(requests, order) ==
    [i \in DOMAIN requests |-> requests[i].output]

\* The inner loop: push the page's results until max_results are held.
PushPage(all_results, page_results, max_results) ==
    IF Len(all_results) >= max_results THEN all_results
    ELSE all_results
         \o SubSeq(page_results, 1, Min(Len(page_results), max_results - Len(all_results)))

\* The outer loop over the page results.
RECURSIVE CollectPages(_, _, _)
CollectPages(all_results, results, max_results) ==
    IF results = <<>> THEN Ok(all_results)
    ELSE IF Head(results).kind = "Err" THEN Head(results)
    ELSE CollectPages(PushPage(all_results, Head(results).value, max_results),
                      Tail(results), max_results)

\* search up to join_all: num_pages is computed, under either build profile,
\* and one request per page is created.
SearchCall ==
    /\ op = "search" /\ primitive_pc = "search_call"
    /\ \E overflow_checks \in BOOLEAN :
         IF overflow_checks /\ NumPagesOverflows(MaxResultsOf(argument))
         THEN /\ PrimitiveReturn([kind |-> "Panic"])
              /\ UNCHANGED pages
         ELSE /\ pages' = PageRequests(NumPages(MaxResultsOf(argument)))
              /\ primitive_pc' = "search_join"
              /\ UNCHANGED returned
    /\ UNCHANGED <<op, argument, attempts, sends, sleeps, page_finish_order, response>>
    /\ UNCHANGED <<strategyVars, composerVars>>

\* One page request completes.
PageFinish ==
    /\ op = "search" /\ primitive_pc = "search_join"
    /\ \E pageno \in DOMAIN pages :
         /\ pages[pageno].state = "pending"
         /\ \E resp \in PageResponses(pageno) :
              pages' = [pages EXCEPT ![pageno] =
                           [state |-> "finished", response |-> resp,
                            output |-> single_page_search(resp)]]
         /\ page_finish_order' = Append(page_finish_order, pageno)
    /\ sends' = Sent("searx")
    /\ UNCHANGED <<op, argument, primitive_pc, attempts, sleeps, response, returned>>
    /\ UNCHANGED <<strategyVars, composerVars>>

\* join_all returned: the loops that build all_results.
SearchJoinReturn ==
    /\ op = "search" /\ primitive_pc = "search_join"
    /\ \A pageno \in DOMAIN pages : pages[pageno].state = "finished"
    /\ PrimitiveReturn(CollectPages(<<>>, JoinAllPages(pages, page_finish_order),
                                    MaxResultsOf(argument)))
    /\ UNCHANGED <<op, argument, attempts, sends, sleeps, pages, page_finish_order,
                   response>>
    /\ UNCHANGED <<strategyVars, composerVars>>

(***************************************************************************)
(* Page fetcher (visit_and_parse_webpage)                                  *)
(***************************************************************************)
MAX_RETRIES == 3

\* What one pass of the loop can meet: the client cannot be built, the send
\* fails in transport, or a response arrives, whatever its status.
SendAnswers ==
    { [kind |-> "BuildError"], [kind |-> "TransportError"] }
    \cup { [kind |-> "Response", status |-> st] : st \in {200, 404, 500} }

\* What response.text() can answer.
BodyAnswers == { Err("reqwest::Error"), Ok(<<"html">>) }

\* `if attempts >= MAX_RETRIES`
FetchGiveUp(n) == n >= MAX_RETRIES

\* As FetchSendReturn, but a response with an error status is counted as a
\* failed attempt like a transport error.
FetchSendReturn_RetryOnStatus ==
    /\ op = "fetch" /\ primitive_pc = "fetch_send"
    /\ \E answer \in SendAnswers :
         IF answer.kind = "BuildError"
         THEN /\ PrimitiveReturn(Err(<<"FetchError">>))
              /\ UNCHANGED <<attempts, sends, response>>
         ELSE IF answer.kind = "Response" /\ answer.status < 400
         THEN /\ response' = <<answer>>
              /\ primitive_pc' = "fetch_text"
              /\ sends' = Sent("fetch")
              /\ UNCHANGED <<attempts, returned>>
         ELSE /\ sends' = Sent("fetch")
              /\ attempts' = attempts + 1
              /\ IF FetchGiveUp(attempts + 1)
                 THEN PrimitiveReturn(Err(<<"FetchError">>))
                 ELSE /\ primitive_pc' = "fetch_sleep"
                      /\ UNCHANGED returned
              /\ response' = IF answer.kind = "Response" THEN <<answer>> ELSE response
    /\ UNCHANGED <<op, argument, sleeps, pages, page_finish_order>>
    /\ UNCHANGED <<strategyVars, composerVars>>

\* send() returned: break with the response, or count the failure and give up
\* or sleep.
FetchSendReturn ==
    /\ op = "fetch" /\ primitive_pc = "fetch_send"
    /\ \E answer \in SendAnswers :
         IF answer.kind = "BuildError"
         THEN /\ PrimitiveReturn(Err(<<"FetchError">>))
              /\ UNCHANGED <<attempts, sends, response>>
         ELSE IF answer.kind = "Response"
         THEN /\ response' = <<answer>>
              /\ primitive_pc' = "fetch_text"
              /\ sends' = Sent("fetch")
              /\ UNCHANGED <<attempts, returned>>
         ELSE /\ sends' = Sent("fetch")
              /\ attempts' = attempts + 1
              /\ IF FetchGiveUp(attempts + 1)
                 THEN PrimitiveReturn(Err(<<"FetchError">>))
                 ELSE /\ primitive_pc' = "fetch_sleep"
                      /\ UNCHANGED returned
              /\ UNCHANGED response
    /\ UNCHANGED <<op, argument, sleeps, pages, page_finish_order>>
    /\ UNCHANGED <<strategyVars, composerVars>>

\* The 1-second sleep is over: the next pass of the loop sends again.
FetchSleepReturn ==
    /\ op = "fetch" /\ primitive_pc = "fetch_sleep"
    /\ sleeps' = sleeps + 1
    /\ primitive_pc' = "fetch_send"
    /\ UNCHANGED <<op, argument, attempts, sends, pages, page_finish_order, response,
                   returned>>
    /\ UNCHANGED <<strategyVars, composerVars>>

\* response.text() returned; dom_parse_webpage never fails.
FetchTextReturn ==
    /\ op = "fetch" /\ primitive_pc = "fetch_text"
    /\ \E body \in BodyAnswers :
         IF body.kind = "Err"
         THEN PrimitiveReturn(Err(<<"FetchError">>))
         ELSE PrimitiveReturn(Ok([status |-> response[1].status, content |-> body.value]))
    /\ UNCHANGED <<op, argument, attempts, sends, sleeps, pages, page_finish_order,
                   response>>
    /\ UNCHANGED <<strategyVars, composerVars>>

(***************************************************************************)
(* LLM gateway (CompletionBuilder::build, completion_anthropic)            *)
(***************************************************************************)
\* The gateway of llm.rs, which talks to the proxy, and the Anthropic backend
\* of llm/anthropic.rs.
Providers == {"proxy", "anthropic"}

LlmSendAnswers ==
    { [kind |-> "TransportError"] }
    \cup { [kind |-> "Response", status |-> st] : st \in {200, 201, 500} }

\* The bodies a response can carry: one that cannot be read, one that is no
\* JSON, an error object, or a completion with its choices.
LlmBodies ==
    { [kind |-> "Unreadable"], [kind |-> "Garbage"],
      [kind |-> "Error", message |-> "overloaded"] }
    \cup { [kind |-> "Completion", choices |-> c] : c \in { <<>>, <<"A">>, <<"A", "B">> } }

\* CompletionBuilder::build of llm.rs, from the response on.
CompletionBuilder_build(status, body) ==
    IF status = 200
    THEN IF body.kind # "Completion" THEN Err(<<"RequestError">>)
         ELSE IF body.choices = <<>> THEN Err(<<"EmptyResponse">>)
         ELSE Ok(body.choices[1])
    ELSE IF body.kind = "Unreadable" THEN Err(<<"RequestError">>)
         ELSE Err(<<"Other", status,
                    IF body.kind = "Error" THEN body.message ELSE body>>)

\* completion_anthropic, from the response on: the status is never read.
completion_anthropic(status, body) ==
    IF body.kind # "Completion" THEN Err(<<"RequestError">>)
    ELSE IF body.choices = <<>> THEN Err(<<"EmptyResponse">>)
    ELSE Ok(body.choices[1])

\* send() returned.
LlmSendReturn ==
    /\ op = "completion" /\ primitive_pc = "llm_send"
    /\ \E answer \in LlmSendAnswers :
         IF answer.kind = "TransportError"
         THEN /\ PrimitiveReturn(Err(<<"RequestError">>))
              /\ UNCHANGED response
         ELSE /\ response' = <<[status |-> answer.status]>>
              /\ primitive_pc' = "llm_body"
              /\ UNCHANGED returned
    /\ sends' = Sent("llm")
    /\ UNCHANGED <<op, argument, attempts, sleeps, pages, page_finish_order>>
    /\ UNCHANGED <<strategyVars, composerVars>>

\* response.json() / response.text() returned.
LlmBodyReturn ==
    /\ op = "completion" /\ primitive_pc = "llm_body"
    /\ \E body \in LlmBodies :
         /\ response' = <<[status |-> response[1].status, body |-> body]>>
         /\ PrimitiveReturn(
              IF argument[1] = "proxy"
              THEN CompletionBuilder_build(response[1].status, body)
              ELSE completion_anthropic(response[1].status, body))
    /\ UNCHANGED <<op, argument, attempts, sends, sleeps, pages, page_finish_order>>
    /\ UNCHANGED <<strategyVars, composerVars>>

(***************************************************************************)
(* JSON extractor (parse_markdown_code_block, parse_json_response).  A     *)
(* text is the sequence of its lines, without the "\n" that joins them.    *)
(***************************************************************************)
MaxLines == 5

\* The lines a text is made of: fences with and without a tag (FENCE stands
\* for the three backquotes), a JSON object, prose and the empty line.
Lines == { "FENCEjson", "FENCEpy", "FENCE", "{}", "x", "" }

\* The texts of n lines.
TextsOf(n) == [1..n -> Lines]

\* The line holds the three backquotes followed by word characters only.
IsFence(line) == line \in { "FENCEjson", "FENCEpy", "FENCE" }

\* Capture group 1: the word characters after the backquotes.
FenceTag(line) ==
    IF line = "FENCEjson" THEN "json" ELSE IF line = "FENCEpy" THEN "py" ELSE ""

\* The end of the match that starts on line i: the lazy group 2 stops at the
\* first newline-and-backquotes after the newline that follows the tag (0 = no match).
CloserOf(text, i) ==
    LET closers == { k \in (i + 2)..Len(text) : IsFence(text[k]) }
    IN IF closers = {} THEN 0 ELSE CHOOSE k \in closers : \A j \in closers : k <= j

\* The first line at or after pos where the regex matches (0 = none).
OpenerFrom(text, pos) ==
    LET openers == { i \in pos..Len(text) : IsFence(text[i]) /\ CloserOf(text, i) # 0 }
    IN IF openers = {} THEN 0 ELSE CHOOSE i \in openers : \A j \in openers : i <= j

\* re.captures_iter(content): the non-overlapping matches, leftmost first.
RECURSIVE Captures(_, _)
Captures(text, pos) ==
    LET i == OpenerFrom(text, pos) IN
    IF i = 0 THEN <<>>
    ELSE << [language |-> FenceTag(text[i]),
             content |-> SubSeq(text, i + 1, CloserOf(text, i) - 1)] >>
         \o Captures(text, CloserOf(text, i) + 1)

\* str::trim on the joined lines: the empty lines at both ends go.
RECURSIVE Trim(_)
Trim(text) ==
    IF text = <<>> THEN <<>>
    ELSE IF Head(text) = "" THEN Trim(Tail(text))
    ELSE IF text[Len(text)] = "" THEN Trim(SubSeq(text, 1, Len(text) - 1))
    ELSE text

\* As below, but the first matching block is returned.
parse_markdown_code_block_First(content, language) ==
    LET caps == Captures(content, 1)
        valid_results == SelectSeq(caps, LAMBDA cap :
                            language # <<>> /\ cap.language = language[1])
    IN IF language = <<>> /\ caps # <<>> THEN Ok(Trim(caps[1].content))
       ELSE IF valid_results = <<>>
       THEN Err([type |-> "ParseMarkdownCodeBlockError", original_response |-> content])
       ELSE Ok(Trim(valid_results[1].content))

\* parse_markdown_code_block; language is <<>> for None, <<l>> for Some(l).
parse_markdown_code_block(content, language) ==
    LET caps == Captures(content, 1)
        valid_results == SelectSeq(caps, LAMBDA cap :
                            language # <<>> /\ cap.language = language[1])
    IN IF language = <<>> /\ caps # <<>> THEN Ok(Trim(caps[1].content))
       ELSE IF valid_results = <<>>
       THEN Err([type |-> "ParseMarkdownCodeBlockError", original_response |-> content])
       ELSE Ok(Trim(valid_results[Len(valid_results)].content))

\* serde_json::from_str accepts one JSON value and nothing after it.
from_str(text) ==
    IF text = <<"{}">> THEN Ok("{}") ELSE Err("serde_json::Error")

parse_json_response(text) ==
    LET block == parse_markdown_code_block(text, <<"json">>) IN
    IF block.kind = "Err"
    THEN Err([type |-> "ParseJsonError", original_response |-> text])
    ELSE IF from_str(block.value).kind = "Err"
    THEN Err([type |-> "ParseJsonError", original_response |-> text])
    ELSE from_str(block.value)

\* parse_markdown_code_block applied to the argument.
ParseMarkdownCodeBlockReturn ==
    /\ op = "parse_markdown_code_block" /\ primitive_pc = "call"
    /\ PrimitiveReturn(parse_markdown_code_block(argument.content, argument.language))
    /\ UNCHANGED <<op, argument, attempts, sends, sleeps, pages, page_finish_order,
                   response>>
    /\ UNCHANGED <<strategyVars, composerVars>>

\* parse_json_response applied to the argument.
ParseJsonResponseReturn ==
    /\ op = "parse_json_response" /\ primitive_pc = "call"
    /\ PrimitiveReturn(parse_json_response(argument))
    /\ UNCHANGED <<op, argument, attempts, sends, sleeps, pages, page_finish_order,
                   response>>
    /\ UNCHANGED <<strategyVars, composerVars>>

(***************************************************************************)
(* Scrape formatter (format_result)                                        *)
(***************************************************************************)
max_attempts == 3

ScrapeSiteResultFormat == {"Html", "Md"}

\* What builder.build() can answer in format_result_md.
FormatAnswers ==
    { Err(<<"LLMError">>), Ok(<<"x">>), Ok(<<"FENCEjson", "{}", "FENCE">>) }

format_result_md(answer) ==
    IF answer.kind = "Err" THEN Err(<<"LLMError">>)
    ELSE IF parse_json_response(answer.value).kind = "Err" THEN Err(<<"ParseError">>)
    ELSE Ok(parse_json_response(answer.value).value)

\* As below, but one more failure is tolerated.
FormatGiveUp_Later(n) == n >= max_attempts + 1

\* `if attempts >= max_attempts`
FormatGiveUp(n) == n >= max_attempts

\* format_result_html returned: it cannot fail.
FormatHtmlReturn ==
    /\ op = "format_result" /\ primitive_pc = "format_html"
    /\ PrimitiveReturn(Ok(<<"html">>))
    /\ UNCHANGED <<op, argument, attempts, sends, sleeps, pages, page_finish_order,
                   response>>
    /\ UNCHANGED <<strategyVars, composerVars>>

\* format_result_md returned: return its result, or count the failure and
\* give up or call it again.
FormatMdReturn ==
    /\ op = "format_result" /\ primitive_pc = "format_md"
    /\ \E answer \in FormatAnswers :
         LET formatted == format_result_md(answer) IN
         IF formatted.kind = "Ok"
         THEN /\ PrimitiveReturn(formatted)
              /\ UNCHANGED attempts
         ELSE /\ attempts' = attempts + 1
              /\ IF FormatGiveUp(attempts + 1)
                 THEN PrimitiveReturn(formatted)
                 ELSE UNCHANGED <<primitive_pc, returned>>
    /\ sends' = Sent("llm")
    /\ UNCHANGED <<op, argument, sleeps, pages, page_finish_order, response>>
    /\ UNCHANGED <<strategyVars, composerVars>>

(***************************************************************************)
(* Webpage cleaner: the post-processing of dom_parse_webpage.  A text is a *)
(* sequence of characters; the argument is what the HTML sanitizer wrote.  *)
(***************************************************************************)
MaxChars == 5

\* A letter, a space, a line feed and a carriage return.
Chars == { "a", " ", "\n", "\r" }

CharTextsOf(n) == [1..n -> Chars]

\* The position of the first line feed of `text`, 0 when there is none.
FirstNewline(text) ==
    IF \E i \in DOMAIN text : text[i] = "\n"
    THEN CHOOSE i \in DOMAIN text :
            /\ text[i] = "\n"
            /\ \A j \in 1..(i - 1) : text[j] # "\n"
    ELSE 0

\* str::lines: split at every line feed; a line that ended in a line feed
\* loses one carriage return before it; a last line without a line feed is
\* kept as it is, and there is no empty last line.
RECURSIVE str_lines(_)
str_lines(text) ==
    IF text = <<>> THEN <<>>
    ELSE LET nl == FirstNewline(text) IN
         IF nl = 0 THEN <<text>>
         ELSE LET line == SubSeq(text, 1, nl - 1)
                  stripped == IF line # <<>> /\ line[Len(line)] = "\r"
                              THEN SubSeq(line, 1, Len(line) - 1)
                              ELSE line
              IN <<stripped>> \o str_lines(SubSeq(text, nl + 1, Len(text)))

\* line.trim().is_empty()
IsBlank(line) == \A i \in DOMAIN line : line[i] \in { " ", "\r", "\n" }

\* .filter(|line| !line.trim().is_empty())
RECURSIVE DropBlankLines(_)
DropBlankLines(lines) ==
    IF lines = <<>> THEN <<>>
    ELSE IF IsBlank(Head(lines)) THEN DropBlankLines(Tail(lines))
    ELSE <<Head(lines)>> \o DropBlankLines(Tail(lines))

\* .join("\n")
RECURSIVE JoinLines(_)
JoinLines(lines) ==
    IF lines = <<>> THEN <<>>
    ELSE IF Len(lines) = 1 THEN Head(lines)
    ELSE Head(lines) \o <<"\n">> \o JoinLines(Tail(lines))

\* The loop of enforce_n_sequential_newlines over the rest of the text, with
\* the counter newline_count.
RECURSIVE EnforceFrom(_, _, _)
EnforceFrom(text, n, newline_count) ==
    IF text = <<>> THEN <<>>
    ELSE IF Head(text) = "\n"
    THEN (IF newline_count + 1 <= n THEN <<"\n">> ELSE <<>>)
            \o EnforceFrom(Tail(text), n, newline_count + 1)
    ELSE <<Head(text)>> \o EnforceFrom(Tail(text), n, 0)

enforce_n_sequential_newlines(text, n) == EnforceFrom(text, n, 0)

\* The post-processing of dom_parse_webpage on the sanitized HTML.
dom_parse_webpage(clean_html) ==
    enforce_n_sequential_newlines(JoinLines(DropBlankLines(str_lines(clean_html))), 2)

DomParseWebpageReturn ==
    /\ op = "dom_parse_webpage" /\ primitive_pc = "call"
    /\ PrimitiveReturn(Ok(dom_parse_webpage(argument)))
    /\ UNCHANGED <<op, argument, attempts, sends, sleeps, pages, page_finish_order,
                   response>>
    /\ UNCHANGED <<strategyVars, composerVars>>

(***************************************************************************)
(* The query text of the Sequential strategy's metasearch call.  A text is *)
(* the sequence of its space-separated terms.                              *)
(***************************************************************************)
MaxFilters == 2

BaseUrls == {"a", "b"}

\* Option<Vec<String>>: None (<<>>), or Some(list) (<<list>>).
FilterLists == { <<>> } \cup { <<l>> : l \in UNION { [1..n -> BaseUrls] : n \in 0..MaxFilters } }

\* The AgentSearchInput of a call with these filters.
AgentSearchInputOf(whitelist, blacklist) ==
    [query |-> << <<"q">> >>,
     whitelisted_base_urls |-> whitelist,
     blacklisted_base_urls |-> blacklist]

\* format!("site:{}", url) and format!("-site:{}", url), as terms.
SiteTerm(url) == <<"site:", url>>
ExcludeSiteTerm(url) == <<"-site:", url>>

\* terms.join(" OR ")
RECURSIVE JoinOr(_)
JoinOr(terms) ==
    IF Len(terms) <= 1 THEN terms
    ELSE <<Head(terms), <<"OR">>>> \o JoinOr(Tail(terms))

\* build_google_search_query: the query, the whitelist as one OR-joined part,
\* one part per blacklist entry, joined by spaces.
build_google_search_query(query_text, whitelisted_base_urls, blacklisted_base_urls) ==
    query_text
    \o (IF whitelisted_base_urls = <<>> THEN <<>>
        ELSE JoinOr([i \in DOMAIN whitelisted_base_urls[1] |->
                        SiteTerm(whitelisted_base_urls[1][i])]))
    \o (IF blacklisted_base_urls = <<>> THEN <<>>
        ELSE [i \in DOMAIN blacklisted_base_urls[1] |->
                 ExcludeSiteTerm(blacklisted_base_urls[1][i])])

\* SearchInput::build_google_search_query
SearchInput_build_google_search_query(input) ==
    build_google_search_query(input.query, input.whitelisted_base_urls,
                              input.blacklisted_base_urls)

\* AgentSearchInput::build_google_search_query: the query of the request with
\* its filters folded in.
AgentSearchInput_build_google_search_query(input) ==
    build_google_search_query(input.query, input.whitelisted_base_urls,
                              input.blacklisted_base_urls)

\* The search::SearchInput sequential_agent_search builds for its search call.
SequentialSearchInput(input) ==
    [query |-> AgentSearchInput_build_google_search_query(input),
     whitelisted_base_urls |-> input.whitelisted_base_urls,
     blacklisted_base_urls |-> input.blacklisted_base_urls]

\* sequential_agent_search calls search, which builds the query text it sends
\* with every page request.
SequentialSearchQuery ==
    /\ op = "sequential_search" /\ primitive_pc = "call"
    /\ PrimitiveReturn(
         Ok(SearchInput_build_google_search_query(SequentialSearchInput(argument))))
    /\ UNCHANGED <<op, argument, attempts, sends, sleeps, pages, page_finish_order,
                   response>>
    /\ UNCHANGED <<strategyVars, composerVars>>

(***************************************************************************)
(* One call of one primitive                                               *)
(***************************************************************************)
\* The call of the primitive o with the argument a, up to its first await p.
PrimitiveCall(o, a, p) ==
    /\ op = o
    /\ argument = a
    /\ primitive_pc = p
    /\ pages = <<>>

PrimitiveInit ==
    /\ \/ \E a \in SearchInputs : PrimitiveCall("search", a, "search_call")
       \/ PrimitiveCall("fetch", <<"url">>, "fetch_send")
       \/ \E p \in Providers : PrimitiveCall("completion", <<p>>, "llm_send")
       \/ \E f \in ScrapeSiteResultFormat :
             PrimitiveCall("format_result", <<f>>,
                           IF f = "Html" THEN "format_html" ELSE "format_md")
       \/ \E n \in 0..MaxLines : \E t \in TextsOf(n) :
             PrimitiveCall("parse_markdown_code_block",
                           [content |-> t, language |-> <<"json">>], "call")
       \/ \E n \in 0..MaxLines : \E t \in TextsOf(n) :
             PrimitiveCall("parse_json_response", t, "call")
       \/ \E n \in 0..MaxChars : \E t \in CharTextsOf(n) :
             PrimitiveCall("dom_parse_webpage", t, "call")
       \/ \E whitelist \in FilterLists : \E blacklist \in FilterLists :
             PrimitiveCall("sequential_search",
                           AgentSearchInputOf(whitelist, blacklist), "call")
    /\ attempts = 0
    /\ sends = NoSends
    /\ sleeps = 0
    /\ page_finish_order = <<>>
    /\ response = <<>>
    /\ returned = Running
    /\ ComposerIdle
    /\ strategy = "Human"
    /\ pc = "idle"
    /\ search_results = <<>>
    /\ analysis = [content |-> <<>>]
    /\ unvisited_results = <<>>
    /\ result = <<>>
    /\ outcome = Running
    /\ calls = NoCalls
    /\ extracted = <<>>
    /\ failed = <<>>
    /\ completion = <<>>
    /\ sufficient_at = -1
    /\ dependency_tree = <<>>
    /\ level = 0
    /\ current_analysis = <<>>
    /\ visited_results = <<>>
    /\ tasks = <<>>
    /\ finish_order = <<>>
    /\ extraction_results = <<>>
    /\ level_results = <<>>
    /\ selected = {}
    /\ aggregated = <<>>

PrimitiveNext ==
    \/ SearchCall
    \/ PageFinish
    \/ SearchJoinReturn
    \/ FetchSendReturn
    \/ FetchSleepReturn
    \/ FetchTextReturn
    \/ LlmSendReturn
    \/ LlmBodyReturn
    \/ ParseMarkdownCodeBlockReturn
    \/ ParseJsonResponseReturn
    \/ FormatHtmlReturn
    \/ FormatMdReturn
    \/ DomParseWebpageReturn
    \/ SequentialSearchQuery

PrimitiveSpec == PrimitiveInit /\ [][PrimitiveNext]_vars

(***************************************************************************)
(* Properties                                                              *)
(***************************************************************************)
Returned == pc = "done" /\ outcome.kind = "Ok"

\* The list a fan-out was spawned over.
FanInput == IF strategy = "Parallel" THEN search_results ELSE level_results

IsSuffix(a, b) == Len(a) <= Len(b) /\ SubSeq(b, Len(b) - Len(a) + 1, Len(b)) = a

\* C1: in Sequential and Human, once the sufficiency check has answered
\* sufficient=true after the k-th extraction, the strategy has returned its
\* document and has issued no selection, extraction or sufficiency call
\* beyond the k-th.
C1_NoWorkAfterSufficient ==
    sufficient_at >= 0 =>
        /\ Returned
        /\ outcome.value = analysis
        /\ Len(extracted) = sufficient_at
        /\ calls.extract = sufficient_at
        /\ calls.sufficient = sufficient_at
        /\ strategy = "Human" => calls.select = sufficient_at

C1_Witness ==
    /\ strategy = "Sequential"
    /\ sufficient_at = 2
    /\ analysis.unvisited_results # <<>>

\* C2: a Sequential run over n raw results whose sufficiency check first
\* answers true after the k-th extraction (k = n if it never does) returns
\* the first k raw results as visited_results and the other n-k as
\* unvisited_results, both in raw order, and has passed each visited result
\* to the extraction pass exactly once.
C2_SequentialPrefix ==
    (strategy = "Sequential" /\ Returned) =>
        LET n == Len(search_results)
            k == IF sufficient_at >= 0 THEN sufficient_at ELSE n
        IN /\ outcome.value.visited_results = SubSeq(search_results, 1, k)
           /\ outcome.value.unvisited_results = SubSeq(search_results, k + 1, n)
           /\ Len(extracted) = k
           /\ \A i \in 1..k : extracted[i].result = search_results[i]

C2_Witness ==
    /\ strategy = "Sequential" /\ Returned
    /\ Len(search_results) = 3
    /\ sufficient_at = 2
    /\ outcome.value.visited_results = <<SearchResult(0), SearchResult(1)>>
    /\ outcome.value.unvisited_results = <<SearchResult(2)>>

\* The two result lists of a returned document (Human's document names them
\* used_results and discarded_results).
DocLists(doc) ==
    IF strategy = "Human"
    THEN <<doc.used_results, doc.discarded_results>>
    ELSE <<doc.visited_results, doc.unvisited_results>>

\* C3: for every strategy, the returned document lists at most as many
\* visited plus unvisited results as the metasearch returned, and no result
\* is in both lists.
C3_WithinRawAndDisjoint ==
    Returned =>
        LET lists == DocLists(outcome.value) IN
        /\ Len(lists[1]) + Len(lists[2]) <= Len(search_results)
        /\ \A i \in DOMAIN lists[1] : \A j \in DOMAIN lists[2] : lists[1][i] # lists[2][j]

\* The indices of all levels, in level order.
RECURSIVE Flatten(_)
Flatten(tree) == IF tree = <<>> THEN <<>> ELSE Head(tree) \o Flatten(Tail(tree))

\* C4: in a ParallelTree run, the indices of the levels of the processed
\* dependency tree are exactly the raw-result indices, each occurring once.
C4_LevelsPartitionIndices ==
    (strategy = "ParallelTree" /\ (pc \in {"join", "aggregate"} \/ Returned)) =>
        LET indices == Flatten(dependency_tree) IN
        /\ Len(indices) = Len(search_results)
        /\ \A idx \in 0..(Len(search_results) - 1) :
              \E k \in DOMAIN indices : indices[k] = idx

\* C5: in ParallelTree, every index of the dependency tree that
\* search_results is indexed with is less than the number of raw results.
C5_TreeIndicesValid ==
    \A idx \in selected : InBounds(search_results, idx)

\* C6: a successful Parallel run returns the raw result list, in raw order,
\* as visited_results and an empty unvisited_results.
C6_ParallelVisitsAllInOrder ==
    (strategy = "Parallel" /\ Returned) =>
        /\ outcome.value.visited_results = search_results
        /\ outcome.value.unvisited_results = <<>>

C6_Witness ==
    /\ strategy = "Parallel" /\ Returned
    /\ Len(search_results) = 3
    /\ finish_order = <<3, 1, 2>>

\* C7: whatever order the extraction tasks of a fan-out complete in, the
\* list handed to the aggregation pass has one entry per input, and entry i
\* pairs input i with the output of the task that was spawned for input i.
C7_OutputsAlignedWithInputs ==
    pc = "aggregate" =>
        /\ Len(extraction_results) = Len(FanInput)
        /\ \A i \in DOMAIN extraction_results :
              /\ extraction_results[i].search_result = FanInput[i]
              /\ tasks[i].result = FanInput[i]
              /\ extraction_results[i].content = tasks[i].output.value

C7_Witness ==
    /\ pc = "aggregate"
    /\ Len(tasks) = 2
    /\ finish_order = <<2, 1>>
    /\ tasks[1].output.value # tasks[2].output.value

\* C8: when the completion of an extraction pass of Sequential or Human
\* contains the sentinel, the findings content after the extraction is the
\* findings content before it.
C8_SentinelKeepsFindings ==
    [][(/\ pc \in {"seq_extract", "human_analyze"}
        /\ pc' \in {"seq_check", "human_check"}
        /\ Contains(completion', WEB_SEARCH_USE_SAME_WEB_SEARCH_FINDINGS_DOCUMENT))
       => analysis'.content = analysis.content]_vars

C8_Witness ==
    /\ pc = "seq_check"
    /\ completion = <<"A", WEB_SEARCH_USE_SAME_WEB_SEARCH_FINDINGS_DOCUMENT>>
    /\ analysis.content = <<"B">>

\* C9: when a component step has failed, the strategy returns no document:
\* it has returned the error of a failed step (under the strategy's
\* wrappers), or it is still joining the other tasks of the fan-out.
C9_FailureReturnsError ==
    /\ outcome.kind = "Ok" => failed = <<>>
    /\ failed # <<>> =>
          \/ /\ pc = "join"
             /\ outcome.kind = "Running"
             /\ strategy \in {"Parallel", "ParallelTree"}
          \/ /\ pc = "done"
             /\ outcome.kind = "Err"
             /\ \E i \in DOMAIN failed : IsSuffix(failed[i].error, outcome.error)

C9_Witness ==
    /\ strategy = "ParallelTree"
    /\ pc = "done" /\ outcome.kind = "Err"
    /\ current_analysis # <<>>
    /\ failed # <<>>

\* The tasks of the current fan-out whose extraction failed.
FailedTasks == { i \in DOMAIN tasks : tasks[i].output.kind \in {"Err", "JoinError"} }

\* C10: in Parallel and ParallelTree, when the extraction of a page of a
\* fan-out has failed, the strategy returns an error once the fan-out is
\* joined, and no aggregation call is issued for that fan-out: the
\* aggregation calls are those of the levels completed before it.
C10_FailedFanOutNotAggregated ==
    FailedTasks # {} =>
        /\ pc \in {"join", "done"}
        /\ pc = "done" => outcome.kind = "Err"
        /\ calls.aggregate = level

C10_Witness ==
    /\ strategy = "ParallelTree"
    /\ pc = "done" /\ outcome.kind = "Err"
    /\ level = 1
    /\ calls.aggregate = 1
    /\ FailedTasks # {}

(***************************************************************************)
(* Properties of the query-strategy composer                               *)
(***************************************************************************)
ComposerReturned == composer_pc = "done" /\ agent_search_result.kind = "Ok"

\* The contents joined by a blank line, in list order.
RECURSIVE JoinedContent(_)
JoinedContent(results) ==
    IF results = <<>> THEN <<>>
    ELSE IF Len(results) = 1 THEN results[1].analysis.content
    ELSE results[1].analysis.content \o <<BlankLine>> \o JoinedContent(Tail(results))

RECURSIVE ConcatField(_, _)
ConcatField(results, field) ==
    IF results = <<>> THEN <<>>
    ELSE Head(results).analysis[field] \o ConcatField(Tail(results), field)

RECURSIVE ConcatQueries(_)
ConcatQueries(results) ==
    IF results = <<>> THEN <<>>
    ELSE Head(results).queries_executed \o ConcatQueries(Tail(results))

Occurrences(seq, x) == Cardinality({ i \in DOMAIN seq : seq[i] = x })

\* C11: when the Parallel composer returns a result, its content is the
\* sub-results' contents joined by a blank line in query order, its
\* visited_results and unvisited_results are the concatenations of the
\* sub-results' lists in query order, and queries_executed is the concatenation
\* of theirs.
C11_ParallelMergeInQueryOrder ==
    (query_strategy = "ParallelSynthesize" /\ ComposerReturned) =>
        LET merged == agent_search_result.value
            results == [i \in DOMAIN sub_searches |-> sub_searches[i].output.value]
        IN /\ merged.analysis.content = JoinedContent(results)
           /\ merged.analysis.visited_results = ConcatField(results, "visited_results")
           /\ merged.analysis.unvisited_results = ConcatField(results, "unvisited_results")
           /\ merged.queries_executed = ConcatQueries(results)

\* C12: when the Parallel composer returns a result, every query occurs in
\* queries_executed as often as in the synthesized queries, whatever order the
\* sub-searches completed in.
C12_QueriesExecutedMultiset ==
    (query_strategy = "ParallelSynthesize" /\ ComposerReturned) =>
        \A q \in Queries :
            Occurrences(agent_search_result.value.queries_executed, q)
                = Occurrences(synthesized_queries, q)

\* Two sub-searches of different queries completed in reverse spawn order, the
\* first with empty findings, and the composer returned their merge.
C12_Witness ==
    /\ query_strategy = "ParallelSynthesize" /\ ComposerReturned
    /\ synthesized_queries = <<"q1", "q2">>
    /\ sub_finish_order = <<2, 1>>
    /\ sub_searches[1].output.value.analysis.content = <<>>
    /\ agent_search_result.value.queries_executed = <<"q1", "q2">>

\* C13: once the Sequential composer is past a successful sub-search and no
\* sub-search has failed, it ends by returning a result whose queries_executed
\* lists the synthesized queries in the synthesizer's order.
C13_SequentialQueriesInOrder ==
    (/\ query_strategy = "SequentialSynthesize"
     /\ composer_pc = "done"
     /\ sub_outputs # <<>>
     /\ agent_search_result.kind # "Err") =>
        /\ agent_search_result.kind = "Ok"
        /\ agent_search_result.value.queries_executed = synthesized_queries

\* C14: in the Sequential composer, after each successful sub-search the
\* running result is the merge, by the rules of the Parallel composer, of the
\* results of the sub-searches executed so far.
C14_SequentialRunningMerge ==
    (query_strategy = "SequentialSynthesize" /\ sub_outputs # <<>>) =>
        cur_result = << MergeResults(EmptyAgentSearchResult, sub_outputs) >>

(***************************************************************************)
(* Properties of the primitives                                            *)
(***************************************************************************)
PrimitiveReturned == primitive_pc = "done"

\* The first n elements of seq.
Take(seq, n) == SubSeq(seq, 1, Min(Len(seq), n))

\* What the backend listed on the pages 1..n, in page order.
RECURSIVE ListedUpTo(_)
ListedUpTo(n) ==
    IF n = 0 THEN <<>> ELSE ListedUpTo(n - 1) \o pages[n].response.body[2]

\* C15: when the metasearch client returns a list, it holds at most
\* max_results_to_visit results and is the concatenation of the pages' results
\* in page-number order, then intra-page order, cut after the first max
\* results, whatever order the page requests completed in.
C15_PagesInOrderTruncated ==
    (op = "search" /\ PrimitiveReturned /\ returned.kind = "Ok") =>
        /\ Len(returned.value) <= MaxResultsOf(argument)
        /\ returned.value = Take(ListedUpTo(Len(pages)), MaxResultsOf(argument))

\* Two pages, the second answered first; the list is cut inside page 2.
C15_Witness ==
    /\ op = "search" /\ PrimitiveReturned /\ returned.kind = "Ok"
    /\ page_finish_order = <<2, 1>>
    /\ Len(pages[1].output.value) = SEARX_RESULTS_PER_PAGE
    /\ Len(pages[2].output.value) = 2
    /\ Len(returned.value) = SEARX_RESULTS_PER_PAGE + 1
    /\ returned.value[Len(returned.value)] = SearchResult(<<2, 0>>)

\* How a page request failed: "" when it did not.
PageFailure(resp) ==
    IF resp.kind = "TransportError" THEN "RequestError"
    ELSE IF ~IsSuccess(resp.status) THEN "SearxError"
    ELSE IF resp.body[1] # "results" THEN "RequestError"
    ELSE ""

FailedPages == { pageno \in DOMAIN pages : PageFailure(pages[pageno].response) # "" }

\* C16 as stated: when a page answered with a non-2xx status the search fails
\* with SearxError, and when a page had a transport error it fails with
\* RequestError.
C16_EachFailureKindReturned ==
    (op = "search" /\ PrimitiveReturned) =>
        /\ (\E pageno \in DOMAIN pages :
                /\ pages[pageno].response.kind = "Response"
                /\ ~IsSuccess(pages[pageno].response.status))
           => (returned.kind = "Err" /\ returned.error[1] = "SearxError")
        /\ (\E pageno \in DOMAIN pages : pages[pageno].response.kind = "TransportError")
           => (returned.kind = "Err" /\ returned.error[1] = "RequestError")

\* C16 amended: when any page request failed, the search returns no list but
\* the error of the lowest-numbered failed page: SearxError for a non-2xx
\* status, RequestError for a transport error or an undecodable body.
C16_FirstFailedPageReturned ==
    (op = "search" /\ PrimitiveReturned /\ FailedPages # {}) =>
        LET first == CHOOSE pageno \in FailedPages : \A j \in FailedPages : pageno <= j
        IN /\ returned.kind = "Err"
           /\ returned.error[1] = PageFailure(pages[first].response)

\* Page 1 listed results, page 2 answered 500 before page 1 completed.
C16_Witness ==
    /\ op = "search" /\ PrimitiveReturned
    /\ page_finish_order = <<2, 1>>
    /\ pages[1].output.kind = "Ok" /\ Len(pages[1].output.value) > 0
    /\ pages[2].response.kind = "Response" /\ pages[2].response.status = 500
    /\ returned = Err(<<"SearxError", 500>>)

\* C17: once a request was sent, the fetcher returns FetchError only after its
\* retries are used up: as many sends as the retry limit have failed.
C17_FetchErrorOnlyAfterRetries ==
    (op = "fetch" /\ PrimitiveReturned /\ sends.fetch >= 1
     /\ returned = Err(<<"FetchError">>)) =>
        /\ sends.fetch >= MAX_RETRIES
        /\ attempts >= MAX_RETRIES

C19_GatewayOutcomes ==
    (op = "completion" /\ PrimitiveReturned /\ response # <<>>
     /\ response[1].body.kind = "Completion") =>
        IF ~IsSuccess(response[1].status)
        THEN /\ returned.kind = "Err"
             /\ returned.error[1] = "Other"
             /\ returned.error[2] = response[1].status
        ELSE IF response[1].body.choices = <<>>
        THEN returned = Err(<<"EmptyResponse">>)
        ELSE returned = Ok(response[1].body.choices[1])

\* The fenced blocks of a text: a block opens at a fence line and closes at
\* the next line that is a bare fence; an unclosed fence opens no block.
RECURSIVE FencedBlocks(_, _)
FencedBlocks(text, pos) ==
    LET openers == { i \in pos..Len(text) : IsFence(text[i]) } IN
    IF openers = {} THEN <<>>
    ELSE LET i == CHOOSE o \in openers : \A j \in openers : o <= j
             closers == { k \in (i + 1)..Len(text) : text[k] = "FENCE" }
         IN IF closers = {} THEN <<>>
            ELSE LET k == CHOOSE c \in closers : \A j \in closers : c <= j
                 IN << [language |-> FenceTag(text[i]),
                        content |-> SubSeq(text, i + 1, k - 1)] >>
                    \o FencedBlocks(text, k + 1)

JsonBlocks(text) ==
    SelectSeq(FencedBlocks(text, 1), LAMBDA block : block.language = "json")

\* C20: for every text the JSON extractor returns the content (less the
\* surrounding whitespace) of the last fenced block whose tag is json, and
\* when the text has no such block it fails with an error that carries the
\* text.
C20_LastJsonBlock ==
    (op = "parse_markdown_code_block" /\ argument.language = <<"json">>
     /\ PrimitiveReturned) =>
        LET blocks == JsonBlocks(argument.content) IN
        IF blocks = <<>>
        THEN /\ returned.kind = "Err"
             /\ returned.error.original_response = argument.content
        ELSE returned = Ok(Trim(blocks[Len(blocks)].content))

(***************************************************************************)
(* Request and result formatter                                            *)
(***************************************************************************)
RequestReturned == request_pc = "done"

\* The log entries that are metasearch or LLM calls.
CallsIssued == { i \in DOMAIN request_log : request_log[i].call \in {"searx", "llm"} }

\* C21: a request with result format Custom and no custom format description
\* fails with CustomFormatDescriptionMissing, and issued no metasearch call and
\* no LLM call.
C21_CustomWithoutDescriptionFailsEarly ==
    (RequestReturned /\ result_format = "Custom" /\ custom_format_description = <<>>)
        => /\ final_result = Err(<<"CustomFormatDescriptionMissing">>)
           /\ CallsIssued = {}

(***************************************************************************)
(* Traversal strategies: bookkeeping of the visited results                *)
(***************************************************************************)
\* The list `field` of a document, empty when the document has no such field.
ListOf(doc, field) == IF field \in DOMAIN doc THEN doc[field] ELSE <<>>

InList(list, x) == \E i \in DOMAIN list : list[i] = x

Last(list) == list[Len(list)]

\* Human has installed the outcome of an extraction and awaits the
\* sufficiency check.
HumanExtracted == strategy = "Human" /\ pc = "human_check"

\* C22 as stated: in Human, after each extraction the result just visited is
\* appended to unvisited_results of the AnalysisDocument and not to its
\* visited_results.
C22_VisitedAppendedToUnvisited ==
    HumanExtracted =>
        /\ ListOf(analysis, "unvisited_results") # <<>>
        /\ Last(ListOf(analysis, "unvisited_results")) = result[1]
        /\ ~InList(ListOf(analysis, "visited_results"), result[1])

\* C22 as amended: in Human, after each extraction the result just visited
\* is the last element of discarded_results when the completion holds the
\* keep-findings sentinel and of used_results otherwise, the other list is
\* as long as before, and the result is not put back on the unvisited list:
\* the three lists together are as long as the raw result list.
C22_VisitedAppendedToUsedOrDiscarded ==
    HumanExtracted =>
        LET kept == Contains(completion, WEB_SEARCH_USE_SAME_WEB_SEARCH_FINDINGS_DOCUMENT)
            into == IF kept THEN analysis.discarded_results ELSE analysis.used_results
        IN /\ into # <<>>
           /\ Last(into) = result[1]
           /\ Len(analysis.used_results) + Len(analysis.discarded_results)
                 = Len(extracted)
           /\ Len(unvisited_results) + Len(extracted) = Len(search_results)

C22_Witness ==
    /\ HumanExtracted
    /\ Len(analysis.used_results) = 1
    /\ Len(analysis.discarded_results) = 1
    /\ Last(analysis.discarded_results) = result[1]
    /\ Len(unvisited_results) = 1

\* The unvisited list of the running loop.
LoopUnvisited ==
    IF strategy = "Human" THEN unvisited_results
    ELSE ListOf(analysis, "unvisited_results")

\* C23: in Sequential and Human, for a raw result list of length n and any
\* LLM answers, the loop body has run at most n times: every iteration has
\* removed exactly one element of the unvisited list, so the list and the
\* iterations so far add up to n, and no call of the body is issued more
\* than n times.
C23_LoopBoundedByResults ==
    strategy \in {"Sequential", "Human"} =>
        LET n == Len(search_results) IN
        /\ Len(LoopUnvisited) + Len(extracted) = n
        /\ calls.extract = Len(extracted)
        /\ calls.extract <= n /\ calls.sufficient <= n /\ calls.select <= n

C23_Witness ==
    /\ strategy = "Human" /\ Returned
    /\ Len(search_results) = 3
    /\ Len(extracted) = 3
    /\ calls.sufficient = 3
    /\ sufficient_at = -1
    /\ unvisited_results = <<>>

\* The results a returned document lists as visited (Human's document lists
\* them as used or discarded).
VisitedOf(doc) ==
    IF strategy = "Human"
    THEN doc.used_results \o doc.discarded_results
    ELSE doc.visited_results

\* C24: in the document a strategy returns, every element of visited_results
\* was processed by exactly one extraction pass.
C24_VisitedExtractedExactlyOnce ==
    Returned =>
        LET visited == VisitedOf(outcome.value) IN
        \A k \in DOMAIN visited :
            Cardinality({ i \in DOMAIN extracted : extracted[i].result = visited[k] }) = 1

(***************************************************************************)
(* Webpage cleaner                                                         *)
(***************************************************************************)
\* The text has a run of more than n line feeds.
HasNewlineRun(text, n) ==
    \E i \in DOMAIN text :
        /\ i + n <= Len(text)
        /\ \A k \in 0..n : text[i + k] = "\n"

\* C25: the post-processing of the webpage cleaner applied to a text it has
\* already cleaned returns that text unchanged, and its output never has more
\* than 2 consecutive line feeds.
C25_CleanerIdempotent ==
    (op = "dom_parse_webpage" /\ PrimitiveReturned) =>
        /\ dom_parse_webpage(returned.value) = returned.value
        /\ ~HasNewlineRun(returned.value, 2)

(***************************************************************************)
(* ParallelTree: levels in order                                           *)
(***************************************************************************)
\* The number of indices in the first n levels of the tree.
RECURSIVE LevelsSize(_, _)
LevelsSize(tree, n) == IF n = 0 THEN 0 ELSE LevelsSize(tree, n - 1) + Len(tree[n])

\* The level (1-based) the i-th extraction of a ParallelTree run belongs to.
LevelOf(i) ==
    CHOOSE k \in DOMAIN dependency_tree :
        LevelsSize(dependency_tree, k - 1) < i /\ i <= LevelsSize(dependency_tree, k)

\* The levels whose fan-out has been spawned.
LevelsStarted == IF pc \in {"join", "aggregate"} THEN level + 1 ELSE level

\* C26: ParallelTree processes the levels in order: the extractions issued so
\* far are those of the levels up to the one in progress, an extraction of
\* level k+1 is issued only when the aggregation of level k has returned,
\* every extraction of the first level has empty findings as baseline and
\* every extraction of level k+1 the output of the aggregation of level k.
C26_LevelsInOrder ==
    strategy = "ParallelTree" =>
        /\ Len(aggregated) = level
        /\ outcome.kind \in {"Running", "Ok"} =>
              Len(extracted) = LevelsSize(dependency_tree, LevelsStarted)
        /\ \A i \in DOMAIN extracted :
              LET k == LevelOf(i) IN
              /\ k <= Len(aggregated) + 1
              /\ extracted[i].baseline = IF k = 1 THEN <<>> ELSE aggregated[k - 1]
        /\ pc \in {"join", "aggregate"} =>
              \A i \in DOMAIN tasks : tasks[i].baseline = current_analysis

C26_Witness ==
    /\ strategy = "ParallelTree" /\ pc = "join"
    /\ level = 1
    /\ aggregated = <<<<"A">>>>
    /\ Len(extracted) = 2
    /\ extracted[1].baseline = <<>>
    /\ extracted[2].baseline = <<"A">>

\* C27: a successful ParallelTree run has issued exactly one aggregation pass
\* per level of the dependency tree, in level order, each after exactly one
\* extraction per index of its level, so the extractions are as many as the
\* indices of all levels.
C27_OneAggregationPerLevel ==
    (strategy = "ParallelTree" /\ Returned) =>
        LET indices == Flatten(dependency_tree) IN
        /\ calls.aggregate = Len(dependency_tree)
        /\ Len(aggregated) = Len(dependency_tree)
        /\ calls.extract = Len(indices)
        /\ Len(extracted) = Len(indices)
        /\ \A i \in DOMAIN extracted :
              extracted[i].result = At(search_results, indices[i])

C27_Witness ==
    /\ strategy = "ParallelTree" /\ Returned
    /\ Len(dependency_tree) = 2
    /\ Len(dependency_tree[1]) = 1 /\ Len(dependency_tree[2]) = 1
    /\ calls.aggregate = 2
    /\ calls.extract = 2

(***************************************************************************)
(* Sequential and Human: one iteration after the other                     *)
(***************************************************************************)
\* The findings an iteration leaves: those it was given when the completion
\* holds the sentinel, the completion otherwise.
ProducedBy(baseline, text) ==
    IF Contains(text, WEB_SEARCH_USE_SAME_WEB_SEARCH_FINDINGS_DOCUMENT)
    THEN baseline ELSE text

\* An extraction pass of Sequential or Human is in flight.
ExtractionInFlight ==
    \/ strategy = "Sequential" /\ pc = "seq_extract"
    \/ strategy = "Human" /\ pc = "human_analyze"

\* C28: in Sequential and Human, when the extraction of iteration i+1 is
\* issued the findings of iteration i are installed and its sufficiency
\* check has been issued and has returned; the extraction receives as
\* current findings the content iteration i produced (the first one the
\* empty findings).
C28_IterationsInSequence ==
    ExtractionInFlight =>
        LET k == Len(extracted) IN
        /\ k >= 1
        /\ calls.extract = k
        /\ calls.sufficient = k - 1
        /\ strategy = "Human" => calls.select = k
        /\ extracted[k].baseline = analysis.content
        /\ analysis.content =
              IF k = 1 THEN <<>>
              ELSE ProducedBy(extracted[k - 1].baseline, completion)

C28_Witness ==
    /\ strategy = "Sequential" /\ pc = "seq_extract"
    /\ Len(extracted) = 3
    /\ extracted[2].baseline = <<"A">>
    /\ completion = <<"A", WEB_SEARCH_USE_SAME_WEB_SEARCH_FINDINGS_DOCUMENT>>
    /\ extracted[3].baseline = <<"A">>

(***************************************************************************)
(* Fan-out: isolation of the concurrent extraction tasks                   *)
(***************************************************************************)
\* The findings the orchestrator holds while a fan-out runs.
OrchestratorFindings == IF strategy = "Parallel" THEN <<>> ELSE current_analysis

\* C29: within one fan-out every extraction task has its own copy of the
\* same baseline findings (the empty text in flat Parallel); the output of a
\* task is made of its own baseline and its own completion only, whatever
\* the other tasks returned and in whatever order they completed; and until
\* all tasks are joined the orchestrator has neither changed its findings
\* nor issued the aggregation pass nor returned.
C29_TasksIsolated ==
    pc \in {"join", "aggregate"} =>
        /\ \A i \in DOMAIN tasks :
              /\ tasks[i].baseline = OrchestratorFindings
              /\ tasks[i].output.kind = "Ok" =>
                    tasks[i].output.value =
                        ProducedBy(tasks[i].baseline, tasks[i].answer.value)
        /\ pc = "join" =>
              /\ outcome = Running
              /\ extraction_results = <<>>
              /\ calls.aggregate = level
              /\ Len(aggregated) = level
        /\ pc = "aggregate" => AllFinished

C29_Witness ==
    /\ strategy = "Parallel" /\ pc = "join"
    /\ Len(tasks) = 3
    /\ finish_order = <<3, 1>>
    /\ tasks[3].output = Ok(<<"A">>)
    /\ tasks[1].answer = Ok(<<"B", WEB_SEARCH_USE_SAME_WEB_SEARCH_FINDINGS_DOCUMENT>>)
    /\ tasks[1].output = Ok(<<>>)
    /\ tasks[2].state = "running"

(***************************************************************************)
(* Multi-query Sequential: one sub-search at a time                        *)
(***************************************************************************)
\* The positions of the log where the sub-search of the i-th query starts,
\* and where it returns.
StartsOf(i) ==
    { p \in DOMAIN request_log : request_log[p].call = "searx" /\ request_log[p].by = i }
ReturnsOf(i) ==
    { p \in DOMAIN request_log : request_log[p].call = "return" /\ request_log[p].by = i }

\* The queries whose sub-search was started.
QueriesStarted == { i \in DOMAIN synthesized_queries : StartsOf(i) # {} }

\* C30: under SequentialSynthesize the sub-search of query i+1 issues its
\* first call only after the sub-search of query i has returned with a
\* result, every sub-search is started once, and after a sub-search has
\* failed no call is issued for a later query.
C30_SequentialOneAtATime ==
    query_strategy = "SequentialSynthesize" =>
        /\ \A i \in QueriesStarted :
              /\ Cardinality(StartsOf(i)) = 1
              /\ i > 1 =>
                    \E r \in ReturnsOf(i - 1) :
                        /\ request_log[r].ok
                        /\ \A p \in StartsOf(i) : r < p
        /\ \A r \in DOMAIN request_log :
              (request_log[r].call = "return" /\ ~request_log[r].ok) =>
                  /\ agent_search_result = Err(<<"SingleSearchError">>)
                  /\ \A p \in DOMAIN request_log :
                        (p > r /\ request_log[p].call = "searx") =>
                            request_log[p].by <= request_log[r].by

C30_Witness ==
    /\ query_strategy = "SequentialSynthesize"
    /\ Len(synthesized_queries) = 2
    /\ agent_search_result = Err(<<"SingleSearchError">>)
    /\ QueriesStarted = {1}
    /\ ReturnsOf(1) # {}

\* The number of sub-searches the composer has started.
SubSearchesStarted == Len(sub_inputs)

PagesRequested == op = "search" /\ primitive_pc # "search_call"

\* C32: for every max_results_to_visit of the word the client issues exactly
\* ceil(max / 8) page requests, numbered 1..N, none when max is 0, and the
\* computation of the count does not overflow.
C32_PageCountIsCeiling ==
    PagesRequested =>
        LET max_results == MaxResultsOf(argument)
            num_pages == Len(pages)
        IN /\ returned.kind # "Panic"
           /\ DOMAIN pages = 1..num_pages
           /\ num_pages * SEARX_RESULTS_PER_PAGE >= max_results
           /\ num_pages * SEARX_RESULTS_PER_PAGE < max_results + SEARX_RESULTS_PER_PAGE

\* The fetcher has received a response to one of its sends.
ResponseReceived == op = "fetch" /\ response # <<>>

\* C33: the fetcher does not retry on an HTTP status: a response, whatever
\* its status, ends the loop at that attempt (no send and no sleep follow it)
\* and its body is what the fetcher goes on with; every further attempt
\* follows a transport error of send.
C33_ResponseEndsRetryLoop ==
    op = "fetch" =>
        /\ ResponseReceived =>
              /\ primitive_pc \in {"fetch_text", "done"}
              /\ sends.fetch = attempts + 1
              /\ sleeps = attempts
              /\ (returned.kind = "Ok" =>
                     /\ returned.value.status = response[1].status
                     /\ returned.value.content = <<"html">>)
        /\ ~ResponseReceived => sends.fetch = attempts
        /\ returned.kind = "Ok" => ResponseReceived

\* One transport error, then a 404 whose body went on to the sanitizer.
C33_Witness ==
    /\ op = "fetch" /\ PrimitiveReturned /\ returned.kind = "Ok"
    /\ attempts = 1
    /\ sends.fetch = 2
    /\ response[1].status = 404
    /\ returned.value.status = 404

\* The request returned an article of the News or Webpage format.
ArticleReturned ==
    /\ RequestReturned /\ final_result.kind = "Ok"
    /\ result_format \in {"NewsArticle", "Webpage"}

DefaultTitle == IF result_format = "NewsArticle" THEN "News Article" ELSE "Webpage"

\* C34: for News and Webpage, when the completion contains a newline the
\* title is the text before the first newline and the content everything
\* after it; when it contains none the title is the default of the format and
\* the content is the whole completion.
C34_TitleIsFirstLine ==
    ArticleReturned =>
        LET lines == format_completion[1].value
            article == final_result.value.value
        IN IF Len(lines) > 1
           THEN /\ article.title = <<lines[1]>>
                /\ article.title \o article.content = lines
           ELSE /\ article.title = <<DefaultTitle>>
                /\ article.content = lines

\* A Webpage completion of three lines: the first is the title, the other two
\* the content.
C34_Witness ==
    /\ ArticleReturned
    /\ result_format = "Webpage"
    /\ format_completion[1].value = <<"T", "body", "more">>
    /\ final_result.value.value = [title |-> <<"T">>, content |-> <<"body", "more">>]

\* The documents that differ from `doc` in their content only.
DifferInContentOnly(doc) ==
    { d \in SubAnalyses : /\ d.content # doc.content
                          /\ d.visited_results = doc.visited_results
                          /\ d.unvisited_results = doc.unvisited_results }

\* C35: the LLM request of the result formatter depends on the content of
\* the analysis document: for a document that differs only in content the
\* formatter builds a different request.
C35_FormatRequestDependsOnContent ==
    format_request # <<>> =>
        \A d \in DifferInContentOnly(agent_search_result.value.analysis) :
            FormatPrompt(result_format, custom_format_description, UserQuery, d)
                # format_request[1]

\* C36: for every list of queries the synthesizer can answer, the empty one
\* included, and every query strategy, agent_search ends with Ok(result) or
\* with an AgentSearchError, never by an unwrap on a missing value.
C36_AgentSearchNeverPanics ==
    composer_pc = "done" => agent_search_result.kind \in {"Ok", "Err"}

\* C37: in Human the index the select-next-result call answers is used
\* safely: whatever the index, the strategy removes an existing unvisited
\* result or returns an error, and never aborts on an out-of-range removal.
C37_SelectedIndexSafe ==
    (strategy = "Human" /\ pc = "done") => outcome.kind \in {"Ok", "Err"}

\* The error a fan-out returns for the failure of its i-th task alone.
TaskFailure(i) ==
    IF tasks[i].output.kind = "JoinError" THEN <<"JoinError">>
    ELSE <<"VisitAndExtractRelevantInfoError", tasks[i].output.error>>

\* C38: when several extraction tasks of a Parallel fan-out fail, the error
\* returned is the failure of the failing task with the lowest input index,
\* whatever the order in which the tasks completed.
C38_LowestIndexFailureReturned ==
    (strategy = "Parallel" /\ pc = "done" /\ Cardinality(FailedTasks) >= 2) =>
        LET first == CHOOSE i \in FailedTasks : \A j \in FailedTasks : i <= j
        IN outcome = Err(TaskFailure(first))

\* The fan-out over the spawned tasks has returned to the strategy.
FanOutReturned ==
    /\ strategy \in {"Parallel", "ParallelTree"}
    /\ tasks # <<>>
    /\ pc # "join"

\* C39: a fan-out returns, with success or with an error, only after every
\* task it spawned has completed: each task has run to its own end, once, and
\* a task that failed did not keep the tasks behind it from finishing.
C39_ReturnsAfterAllTasks ==
    FanOutReturned =>
        /\ \A i \in DOMAIN tasks :
              /\ tasks[i].state = "finished"
              /\ tasks[i].output.kind # "Pending"
              /\ \E k \in DOMAIN finish_order : finish_order[k] = i
        /\ Len(finish_order) = Len(tasks)

\* Three tasks; the first to complete failed, the other two completed with
\* findings afterwards, and the strategy returned the error.
C39_Witness ==
    /\ strategy = "Parallel"
    /\ pc = "done" /\ outcome.kind = "Err"
    /\ Len(tasks) = 3
    /\ Len(finish_order) = 3
    /\ tasks[finish_order[1]].output.kind = "Err"
    /\ tasks[finish_order[2]].output.kind = "Ok"
    /\ tasks[finish_order[3]].output.kind = "Ok"

\* The Sequential strategy has built the query text of its metasearch call.
QuerySent == op = "sequential_search" /\ PrimitiveReturned

\* C40: in Sequential the filters are folded into the query text once: the
\* text sent to the metasearch holds one site: term per whitelist entry and
\* one -site: term per blacklist entry.
C40_FiltersFoldedOnce ==
    QuerySent =>
        LET sent == returned.value
            whitelist == IF argument.whitelisted_base_urls = <<>> THEN <<>>
                         ELSE argument.whitelisted_base_urls[1]
            blacklist == IF argument.blacklisted_base_urls = <<>> THEN <<>>
                         ELSE argument.blacklisted_base_urls[1]
        IN \A url \in BaseUrls :
              /\ Occurrences(sent, SiteTerm(url)) = Occurrences(whitelist, url)
              /\ Occurrences(sent, ExcludeSiteTerm(url)) = Occurrences(blacklist, url)
====
